---- MODULE Spec2Model ----
(***************************************************************************)
(* Model of the query router of NLP_project:                               *)
(*   src/query_classifier.py         QueryClassifier                       *)
(*   src/web_search_tavily.py        TavilySearchIntegration,              *)
(*                                   WebSearchEnhanced                     *)
(*   src/intelligent_source_router.py IntelligentSourceRouter              *)
(*                                                                         *)
(* Python dicts are records (a key that is absent is absent from DOMAIN),  *)
(* lists are sequences, str is STRING.  A confidence is a number of        *)
(* hundredths (0.85 is 85), so sums and means are exact.  A call that may  *)
(* raise yields Return(v) or Raise(msg).  What the outside world answers   *)
(* (the LLM, the search providers, the page fetch, the local retriever)    *)
(* is an input of the call, drawn from the bounded sets below.             *)
(***************************************************************************)
EXTENDS Integers, Sequences, FiniteSets, TLC

VARIABLES
    config,           \* the Router's constructor state (query_classifier, web_search, fetch_full_content)
    routing_history,  \* IntelligentSourceRouter.routing_history
    result,           \* what the last route_query call returned
    raised,           \* TRUE iff the last route_query call let an exception escape
    stats,            \* what the get_routing_stats calls since the last route_query returned, in order
    calls,            \* number of route_query calls made so far
    inp,              \* the inputs of the last call (route_query, or the function a pure specification applies)
    out,              \* the value the applied function returned
    reader,           \* the frame of a get_routing_stats call that runs beside route_query calls
    writers           \* the route_query calls that have appended their entry and not yet returned

vars == <<config, routing_history, result, raised, stats, calls, inp, out, reader, writers>>

-----------------------------------------------------------------------------
(* Python values                                                           *)

Return(v) == [raised |-> FALSE, val |-> v]
Raise(msg) == [raised |-> TRUE, exc |-> msg]

\* dict.get(k, default)
Get(d, k, default) == IF k \in DOMAIN d THEN d[k] ELSE default

\* d[k] = v
Put(d, k, v) == [x \in (DOMAIN d) \cup {k} |-> IF x = k THEN v ELSE d[x]]

\* d.update(u)
Update(d, u) == [x \in (DOMAIN d) \cup (DOMAIN u) |-> IF x \in DOMAIN u THEN u[x] ELSE d[x]]

\* JSON / Python scalars that may stand where a number is expected
Num(n) == [num |-> n]
Str(s) == [str |-> s]
Null == [null |-> TRUE]

\* str.lower() on one character
LowerChar(c) ==
    CASE c = "A" -> "a" [] c = "B" -> "b" [] c = "C" -> "c" [] c = "D" -> "d"
      [] c = "E" -> "e" [] c = "F" -> "f" [] c = "G" -> "g" [] c = "H" -> "h"
      [] c = "I" -> "i" [] c = "J" -> "j" [] c = "K" -> "k" [] c = "L" -> "l"
      [] c = "M" -> "m" [] c = "N" -> "n" [] c = "O" -> "o" [] c = "P" -> "p"
      [] c = "Q" -> "q" [] c = "R" -> "r" [] c = "S" -> "s" [] c = "T" -> "t"
      [] c = "U" -> "u" [] c = "V" -> "v" [] c = "W" -> "w" [] c = "X" -> "x"
      [] c = "Y" -> "y" [] c = "Z" -> "z" [] OTHER -> c

\* str.lower()
RECURSIVE Lower(_)
Lower(s) == IF Len(s) = 0 THEN "" ELSE LowerChar(SubSeq(s, 1, 1)) \o Lower(SubSeq(s, 2, Len(s)))

\* k in s  (substring test)
Contains(s, k) == \E i \in 1..(Len(s) - Len(k) + 1) : SubSeq(s, i, i + Len(k) - 1) = k

\* any(kw in s for kw in kws)
AnyIn(kws, s) == \E kw \in kws : Contains(s, kw)

\* float(x): a number is itself; a numeral string is parsed; anything else raises
PyFloat(x) ==
    IF "num" \in DOMAIN x THEN Return(x.num)
    ELSE IF "str" \in DOMAIN x THEN
        CASE x.str = "0.95" -> Return(95)
          [] x.str = "0.7" -> Return(70)
          [] x.str = "1.5" -> Return(150)
          [] OTHER -> Raise("could not convert string to float")
    ELSE Raise("float() argument must be a string or a real number")

-----------------------------------------------------------------------------
(* query_classifier.py                                                     *)

valid_sources == {"local_rag", "web_search", "hybrid"}

general_knowledge_patterns ==
    {"what is", "what are", "who is", "who are", "explain", "how does", "how do",
     "how to", "define", "definition of", "tell me about", "describe", "why",
     "when", "where", "weather", "temperature", "forecast", "news", "latest",
     "current", "recent", "history of", "background on"}

document_indicators ==
    {"my document", "my file", "my pdf", "my paper", "the document", "the file",
     "the pdf", "the paper", "uploaded", "attachment", "according to my",
     "based on my", "in my file", "in the document"}

is_general_knowledge(query) ==
    LET query_lower == Lower(query)
        has_doc_indicator == AnyIn(document_indicators, query_lower)
        has_general_pattern == AnyIn(general_knowledge_patterns, query_lower)
    IN  IF has_doc_indicator THEN FALSE
        ELSE IF has_general_pattern THEN TRUE
        ELSE TRUE

document_keywords ==
    {"my document", "my file", "my pdf", "my paper", "the document", "the file",
     "the pdf", "uploaded file", "in my document", "according to my document",
     "what does my", "summarize my", "analyze my"}

classifier_web_keywords ==
    {"latest", "current", "recent", "news", "today", "now", "what is", "what are",
     "explain", "define", "how does", "weather", "temperature", "forecast",
     "2025", "2024", "this year"}

\* a fallback that sends a query without any keyword to the documents when
\* there are some
fallback_classification_local_default(query, has_uploaded_docs) ==
    LET query_lower == Lower(query)
        has_explicit_doc_ref == AnyIn(document_keywords, query_lower)
        has_web_intent == AnyIn(classifier_web_keywords, query_lower)
    IN  IF ~has_uploaded_docs THEN
            [datasource |-> "web_search",
             reasoning |-> "No local documents available - using web search",
             confidence |-> 90, query |-> query]
        ELSE IF has_explicit_doc_ref /\ has_web_intent THEN
            [datasource |-> "hybrid",
             reasoning |-> "Query mentions both uploaded documents and external information",
             confidence |-> 75, query |-> query]
        ELSE IF has_explicit_doc_ref \/ ~has_web_intent THEN
            [datasource |-> "local_rag",
             reasoning |-> "Query explicitly references uploaded documents",
             confidence |-> 85, query |-> query]
        ELSE
            [datasource |-> "web_search",
             reasoning |-> "General knowledge or external information query",
             confidence |-> 80, query |-> query]

fallback_classification(query, has_uploaded_docs) ==
    LET query_lower == Lower(query)
        has_explicit_doc_ref == AnyIn(document_keywords, query_lower)
        has_web_intent == AnyIn(classifier_web_keywords, query_lower)
    IN  IF ~has_uploaded_docs THEN
            [datasource |-> "web_search",
             reasoning |-> "No local documents available - using web search",
             confidence |-> 90, query |-> query]
        ELSE IF has_explicit_doc_ref /\ has_uploaded_docs THEN
            IF has_web_intent THEN
                [datasource |-> "hybrid",
                 reasoning |-> "Query mentions both uploaded documents and external information",
                 confidence |-> 75, query |-> query]
            ELSE
                [datasource |-> "local_rag",
                 reasoning |-> "Query explicitly references uploaded documents",
                 confidence |-> 85, query |-> query]
        ELSE IF has_web_intent \/ is_general_knowledge(query) THEN
            [datasource |-> "web_search",
             reasoning |-> "General knowledge or external information query",
             confidence |-> 80, query |-> query]
        ELSE
            [datasource |-> "web_search",
             reasoning |-> "General query - using web search by default",
             confidence |-> 70, query |-> query]

\* The text of an LLM answer, by what json.loads and the two regular
\* expressions find in it:
\*   [form |-> "json", value |-> v]      json.loads(content) succeeds with v
\*   [form |-> "embedded", value |-> v]  it fails, the first {...} parses to v
\*   [form |-> "text", raw |-> s, reasoning |-> <<>> or <<r>>, confidence |-> <<>> or <<c>>]
\*                                       no JSON; s is the text, r and c the
\*                                       groups the two regexes capture
\* A JSON value is [type |-> "object", fields |-> dict] or [type |-> "array"].
parse_json_response(content) ==
    IF content.form \in {"json", "embedded"} THEN Return(content.value)
    ELSE
        LET low == Lower(content.raw)
            datasource == IF Contains(low, "local_rag") THEN "local_rag"
                          ELSE IF Contains(low, "hybrid") THEN "hybrid"
                          ELSE "web_search"
            reasoning == IF Len(content.reasoning) > 0 THEN content.reasoning[1]
                         ELSE "Classification based on query content"
            confidence == IF Len(content.confidence) > 0
                          THEN PyFloat(Str(content.confidence[1]))
                          ELSE Return(70)
        IN  IF confidence.raised THEN confidence
            ELSE Return([type |-> "object",
                         fields |-> [datasource |-> datasource, reasoning |-> reasoning,
                                     confidence |-> Num(confidence.val)]])

\* classify_query, "Validate datasource"
validate_datasource(r) ==
    IF Get(r, "datasource", "") \notin valid_sources THEN Put(r, "datasource", "web_search") ELSE r

no_docs_override_dropped(r, has_uploaded_docs) == r

\* classify_query, "If no docs uploaded, always use web_search"
no_docs_override(r, has_uploaded_docs) ==
    IF ~has_uploaded_docs /\ Get(r, "datasource", "") \in {"local_rag", "hybrid"}
    THEN Put(Put(Put(r, "datasource", "web_search"),
                 "reasoning", "No local documents available - using web search"),
             "confidence", Num(90))
    ELSE r

\* classify_query, "Check if it's a general knowledge question"
general_knowledge_override(r, query, has_uploaded_docs) ==
    IF has_uploaded_docs /\ Get(r, "datasource", "") = "local_rag" /\ is_general_knowledge(query)
    THEN Put(Put(Put(r, "datasource", "web_search"),
                 "reasoning", "General knowledge question - using web search"),
             "confidence", Num(85))
    ELSE r

\* a classify_query that answers a failed LLM call with the default decision
classify_query_defaulting(query, has_uploaded_docs, llm) ==
    LET fallback == fallback_classification(query, has_uploaded_docs) IN
    IF llm.kind = "raise" THEN
        [datasource |-> "web_search", reasoning |-> "Default routing", confidence |-> 70,
         query |-> query]
    ELSE
        LET parsed == parse_json_response(llm.content) IN
        IF parsed.raised THEN fallback
        ELSE IF parsed.val.type # "object" THEN fallback  \* result.get: AttributeError
        ELSE
            LET r1 == validate_datasource(parsed.val.fields)
                r2 == no_docs_override(r1, has_uploaded_docs)
                r3 == general_knowledge_override(r2, query, has_uploaded_docs)
                conf == PyFloat(Get(r3, "confidence", Num(70)))
            IN  IF conf.raised THEN fallback
                ELSE [datasource |-> Get(r3, "datasource", "web_search"),
                      reasoning |-> Get(r3, "reasoning", "Default routing"),
                      confidence |-> conf.val,
                      query |-> query]

\* llm is what router_chain.invoke does: [kind |-> "raise"] or
\* [kind |-> "answer", content |-> <content>]
classify_query(query, has_uploaded_docs, llm) ==
    LET fallback == fallback_classification(query, has_uploaded_docs) IN
    IF llm.kind = "raise" THEN fallback
    ELSE
        LET parsed == parse_json_response(llm.content) IN
        IF parsed.raised THEN fallback
        ELSE IF parsed.val.type # "object" THEN fallback  \* result.get: AttributeError
        ELSE
            LET r1 == validate_datasource(parsed.val.fields)
                r2 == no_docs_override(r1, has_uploaded_docs)
                r3 == general_knowledge_override(r2, query, has_uploaded_docs)
                conf == PyFloat(Get(r3, "confidence", Num(70)))
            IN  IF conf.raised THEN fallback
                ELSE [datasource |-> Get(r3, "datasource", "web_search"),
                      reasoning |-> Get(r3, "reasoning", "Default routing"),
                      confidence |-> conf.val,
                      query |-> query]

-----------------------------------------------------------------------------
(* web_search_tavily.py                                                    *)

\* a or b  (None and 0 are both falsy; None is written 0)
PyOr(a, b) == IF a # 0 THEN a ELSE b

Min(a, b) == IF a <= b THEN a ELSE b

\* s[:n]
Take(s, n) == SubSeq(s, 1, Min(n, Len(s)))

\* s.startswith(p)
StartsWith(s, p) == Len(s) >= Len(p) /\ SubSeq(s, 1, Len(p)) = p

\* s.replace(old, new), old non-empty
RECURSIVE Replace(_, _, _)
Replace(s, old, new) ==
    IF Len(s) = 0 THEN ""
    ELSE IF StartsWith(s, old) THEN new \o Replace(SubSeq(s, Len(old) + 1, Len(s)), old, new)
    ELSE SubSeq(s, 1, 1) \o Replace(SubSeq(s, 2, Len(s)), old, new)

UpperChar(c) ==
    CASE c = "a" -> "A" [] c = "b" -> "B" [] c = "c" -> "C" [] c = "d" -> "D"
      [] c = "e" -> "E" [] c = "f" -> "F" [] c = "g" -> "G" [] c = "h" -> "H"
      [] c = "i" -> "I" [] c = "j" -> "J" [] c = "k" -> "K" [] c = "l" -> "L"
      [] c = "m" -> "M" [] c = "n" -> "N" [] c = "o" -> "O" [] c = "p" -> "P"
      [] c = "q" -> "Q" [] c = "r" -> "R" [] c = "s" -> "S" [] c = "t" -> "T"
      [] c = "u" -> "U" [] c = "v" -> "V" [] c = "w" -> "W" [] c = "x" -> "X"
      [] c = "y" -> "Y" [] c = "z" -> "Z" [] OTHER -> c

IsCased(c) == LowerChar(c) # c \/ UpperChar(c) # c

\* str.title(): a cased character is upper-cased after an uncased one and
\* lower-cased after a cased one
RECURSIVE TitleFrom(_, _)
TitleFrom(s, prev_cased) ==
    IF Len(s) = 0 THEN ""
    ELSE LET c == SubSeq(s, 1, 1) IN
         (IF prev_cased THEN LowerChar(c) ELSE UpperChar(c))
             \o TitleFrom(SubSeq(s, 2, Len(s)), IsCased(c))

Title(s) == TitleFrom(s, FALSE)

\* What one provider's HTTP API answers to a request:
\*   [kind |-> "raise"]                      timeout, connection error, HTTP
\*                                           error status or malformed payload
\*   [kind |-> "ok", answer |-> b, n |-> k]  a payload of k items (and, for
\*                                           Tavily, a direct answer iff b)
\* The i-th item of a payload; the items differ in their URL.
ItemUrl(i) == IF i % 3 = 1 THEN "https://example.org/a"
              ELSE IF i % 3 = 2 THEN ""
              ELSE "ftp://example.org/c"

ItemTitle(i) == IF i % 3 = 1 THEN "Item a" ELSE IF i % 3 = 2 THEN "Item b" ELSE "Item c"

ItemSnippet(i) == IF i % 3 = 1 THEN "snippet a" ELSE IF i % 3 = 2 THEN "snippet b" ELSE "snippet c"

\* TavilySearchIntegration.search (include_answer is left at its default, True).
\* Returns the result list, and the network requests it issued.
tavily_search(api_key, query, max_results, resp) ==
    IF ~api_key THEN [results |-> <<>>, requests |-> <<>>]
    ELSE IF resp.kind = "raise" THEN [results |-> <<>>, requests |-> <<"Tavily">>]
    ELSE
        LET answer == IF resp.answer
                      THEN <<[title |-> "Direct Answer", url |-> "", snippet |-> "the answer",
                              source |-> "Tavily", type |-> "answer"]>>
                      ELSE <<>>
            kept == Min(resp.n, max_results)
            web == [i \in 1..kept |->
                      [title |-> ItemTitle(i), url |-> ItemUrl(i), snippet |-> ItemSnippet(i),
                       raw_content |-> "raw", source |-> "Tavily", type |-> "web"]]
        IN  [results |-> answer \o web, requests |-> <<"Tavily">>]

search_tavily(ws, query, max_results, env) ==
    tavily_search(ws.tavily_api_key, query, PyOr(max_results, ws.max_results), env.tavily)

search_wikipedia(ws, query, max_results, env) ==
    IF env.wikipedia.kind = "raise" THEN [results |-> <<>>, requests |-> <<"Wikipedia">>]
    ELSE [results |-> [i \in 1..env.wikipedia.n |->
                         [title |-> ItemTitle(i),
                          url |-> "https://en.wikipedia.org/wiki/" \o Replace(ItemTitle(i), " ", "_"),
                          snippet |-> ItemSnippet(i),
                          source |-> "Wikipedia"]],
          requests |-> <<"Wikipedia">>]

arxiv_snippet_limit == 300

search_arxiv(ws, query, max_results, env) ==
    IF env.arxiv.kind = "raise" THEN [results |-> <<>>, requests |-> <<"ArXiv">>]
    ELSE [results |-> [i \in 1..env.arxiv.n |->
                         [title |-> ItemTitle(i),
                          url |-> Replace("http://arxiv.org/abs/" \o ItemTitle(i), "http://", "https://"),
                          snippet |-> Take(ItemSnippet(i), arxiv_snippet_limit),
                          source |-> "ArXiv"]],
          requests |-> <<"ArXiv">>]

\* a search_google_api that sends its request without looking at the credentials
search_google_api_unchecked(ws, query, max_results, env) ==
    IF env.google.kind \in {"raise", "unasked"} THEN [results |-> <<>>, requests |-> <<"Google">>]
    ELSE LET results_limit == PyOr(max_results, ws.max_results) IN
         [results |-> [i \in 1..Min(env.google.n, results_limit) |->
                         [title |-> ItemTitle(i), url |-> ItemUrl(i), snippet |-> ItemSnippet(i),
                          source |-> "Google"]],
          requests |-> <<"Google">>]

search_google_api(ws, query, max_results, env) ==
    IF ~ws.google_api_key \/ ~ws.google_search_engine_id THEN [results |-> <<>>, requests |-> <<>>]
    ELSE IF env.google.kind = "raise" THEN [results |-> <<>>, requests |-> <<"Google">>]
    ELSE LET results_limit == PyOr(max_results, ws.max_results) IN
         [results |-> [i \in 1..Min(env.google.n, results_limit) |->
                         [title |-> ItemTitle(i), url |-> ItemUrl(i), snippet |-> ItemSnippet(i),
                          source |-> "Google"]],
          requests |-> <<"Google">>]

search_bing_api(ws, query, max_results, env) ==
    IF ~ws.bing_api_key THEN [results |-> <<>>, requests |-> <<>>]
    ELSE IF env.bing.kind = "raise" THEN [results |-> <<>>, requests |-> <<"Bing">>]
    ELSE LET results_limit == PyOr(max_results, ws.max_results) IN
         [results |-> [i \in 1..Min(env.bing.n, results_limit) |->
                         [title |-> ItemTitle(i), url |-> ItemUrl(i), snippet |-> ItemSnippet(i),
                          source |-> "Bing"]],
          requests |-> <<"Bing">>]

search_mock_nothing(query) == <<>>

\* The date and time that datetime.now() puts in the snippets are left out.
search_mock(query) ==
    <<[title |-> "Information about " \o query,
       url |-> "https://local.search/results?q=" \o Replace(query, " ", "+"),
       snippet |-> "Based on available knowledge about " \o query \o ". This is a local cached result.",
       source |-> "Local Cache"],
      [title |-> "Related: " \o Title(query) \o " Overview",
       url |-> "https://local.search/related?q=" \o Replace(query, " ", "+"),
       snippet |-> "General information and context related to " \o query \o ".",
       source |-> "Local Cache"]>>

\* a chain that asks every provider and merges what they return
search_merged(ws, query, max_results, env) ==
    LET results_limit == PyOr(max_results, ws.max_results)
        t == search_tavily(ws, query, results_limit, env)
        w == search_wikipedia(ws, query, results_limit, env)
        a == search_arxiv(ws, query, results_limit, env)
        g == search_google_api(ws, query, results_limit, env)
        b == search_bing_api(ws, query, results_limit, env)
        all == t.results \o w.results \o a.results \o g.results \o b.results
    IN  [results |-> IF Len(all) > 0 THEN all ELSE search_mock(query),
         called |-> <<"tavily", "wikipedia", "arxiv", "google", "bing">>
                    \o (IF Len(all) > 0 THEN <<>> ELSE <<"mock">>),
         requests |-> t.requests \o w.requests \o a.requests \o g.requests \o b.requests]

\* WebSearchEnhanced.search.  ws is the WebSearchEnhanced object (max_results
\* and the credentials read at construction), env the providers' answers.
\* Besides the list the method returns (results) the value records the
\* provider methods the call invoked (called) and the network requests those
\* issued (requests), in order.
search(ws, query, max_results, env) ==
    LET results_limit == PyOr(max_results, ws.max_results)
        t == search_tavily(ws, query, results_limit, env)
        w == search_wikipedia(ws, query, results_limit, env)
        a == search_arxiv(ws, query, results_limit, env)
        g == search_google_api(ws, query, results_limit, env)
        b == search_bing_api(ws, query, results_limit, env)
    IN  IF Len(t.results) > 0 THEN
            [results |-> t.results, called |-> <<"tavily">>, requests |-> t.requests]
        ELSE IF Len(w.results) > 0 THEN
            [results |-> w.results, called |-> <<"tavily", "wikipedia">>,
             requests |-> t.requests \o w.requests]
        ELSE IF Len(a.results) > 0 THEN
            [results |-> a.results, called |-> <<"tavily", "wikipedia", "arxiv">>,
             requests |-> t.requests \o w.requests \o a.requests]
        ELSE IF Len(g.results) > 0 THEN
            [results |-> g.results, called |-> <<"tavily", "wikipedia", "arxiv", "google">>,
             requests |-> t.requests \o w.requests \o a.requests \o g.requests]
        ELSE IF Len(b.results) > 0 THEN
            [results |-> b.results,
             called |-> <<"tavily", "wikipedia", "arxiv", "google", "bing">>,
             requests |-> t.requests \o w.requests \o a.requests \o g.requests \o b.requests]
        ELSE
            [results |-> search_mock(query),
             called |-> <<"tavily", "wikipedia", "arxiv", "google", "bing", "mock">>,
             requests |-> t.requests \o w.requests \o a.requests \o g.requests \o b.requests]

\* The whitespace-separated chunks of a text, joined by single spaces
\* (fetch_page_content: splitlines, strip, split(" "), strip, drop the empty
\* chunks, ' '.join).  The whitespace of the modelled texts is " " and "\n".
IsSpace(c) == c = " " \/ c = "\n"

RECURSIVE Chunks(_, _)
Chunks(s, word) ==
    IF Len(s) = 0 THEN (IF Len(word) > 0 THEN <<word>> ELSE <<>>)
    ELSE LET c == SubSeq(s, 1, 1)
             rest == SubSeq(s, 2, Len(s))
         IN  IF IsSpace(c)
             THEN (IF Len(word) > 0 THEN <<word>> ELSE <<>>) \o Chunks(rest, "")
             ELSE Chunks(rest, word \o c)

RECURSIVE Join(_, _)
Join(sep, parts) ==
    IF Len(parts) = 0 THEN ""
    ELSE IF Len(parts) = 1 THEN parts[1]
    ELSE parts[1] \o sep \o Join(sep, Tail(parts))

\* The text of a page with its whitespace normalised, Join(" ", Chunks(s, "")),
\* computed by halves so that a page of several thousand characters can be
\* evaluated: the halves are joined directly when the cut falls inside a
\* word, and by one space otherwise.
RECURSIVE page_text(_)
page_text(s) ==
    IF Len(s) <= 16 THEN Join(" ", Chunks(s, ""))
    ELSE LET mid == Len(s) \div 2
             left == page_text(SubSeq(s, 1, mid))
             right == page_text(SubSeq(s, mid + 1, Len(s)))
         IN  IF Len(left) = 0 THEN right
             ELSE IF Len(right) = 0 THEN left
             ELSE IF ~IsSpace(SubSeq(s, mid, mid)) /\ ~IsSpace(SubSeq(s, mid + 1, mid + 1))
                  THEN left \o right
             ELSE left \o " " \o right

page_content_limit == 3000

\* WebSearchEnhanced.fetch_page_content.  page is what the GET of the URL
\* gives: [kind |-> "raise"] (timeout, error status, parse error) or
\* [kind |-> "ok", text |-> soup.get_text()].  The value is <<>> for None,
\* <<content>> for a text, and tells whether session.get was called.
fetch_page_content(url, page) ==
    IF Len(url) = 0 \/ ~StartsWith(url, "http") THEN [content |-> <<>>, requested |-> FALSE]
    ELSE IF page.kind = "raise" THEN [content |-> <<>>, requested |-> TRUE]
    ELSE LET text == page_text(page.text)
             content == Take(text, page_content_limit)
         IN  [content |-> IF Len(content) > 0 THEN <<content>> ELSE <<>>, requested |-> TRUE]

\* a loop body that leaves a result without full_content when its page gave
\* no text
with_full_content_unfilled(r, page) ==
    LET content == fetch_page_content(Get(r, "url", ""), page).content IN
    IF Len(content) > 0 THEN Put(r, "full_content", content[1]) ELSE r

\* The body of the loop of search_and_extract: the result r with its
\* full_content, page being what the fetch of its URL gives.
with_full_content(r, page) ==
    LET url == Get(r, "url", "") IN
    IF Len(url) > 0 /\ StartsWith(url, "http") THEN
        LET content == fetch_page_content(url, page).content IN
        IF Len(content) > 0 THEN Put(r, "full_content", content[1])
        ELSE Put(r, "full_content", Get(r, "snippet", ""))
    ELSE Put(r, "full_content", Get(r, "snippet", ""))

\* a search_and_extract that drops the results whose page gave no content
extract_dropping_unfetched(results, fetch_content, pages) ==
    IF Len(results) = 0 \/ ~fetch_content THEN results
    ELSE LET fetched(i) ==
                 Len(fetch_page_content(Get(results[i], "url", ""), pages[i]).content) > 0
             kept[i \in 0..Len(results)] ==
                 IF i = 0 THEN <<>>
                 ELSE IF fetched(i) THEN Append(kept[i - 1], with_full_content(results[i], pages[i]))
                 ELSE kept[i - 1]
         IN  kept[Len(results)]

\* search_and_extract after its call of search
extract(results, fetch_content, pages) ==
    IF Len(results) = 0 \/ ~fetch_content THEN results
    ELSE [i \in 1..Len(results) |-> with_full_content(results[i], pages[i])]

\* WebSearchEnhanced.search_and_extract.  env.pages[i] is what the fetch of
\* the i-th result's URL gives.
search_and_extract(ws, query, fetch_content, env) ==
    extract(search(ws, query, 0, env).results, fetch_content, env.pages)

-----------------------------------------------------------------------------
(* intelligent_source_router.py                                            *)

RECURSIVE Rep(_, _)
Rep(c, n) == IF n = 0 THEN "" ELSE c \o Rep(c, n - 1)

\* The router's configuration, set by __init__:
\*   [has_classifier |-> b, web_search |-> <<>> or <<ws>>, fetch_full_content |-> b]
\* A local retriever is [kind |-> "none"] (no retriever passed),
\* [kind |-> "raise"] or [kind |-> "docs", n |-> k]: get_relevant_documents
\* raises, or returns the first k documents of the store.
Doc(i) ==
    IF i % 2 = 1
    THEN [metadata |-> [source |-> "paper.pdf", page |-> "3"], page_content |-> "local text a"]
    ELSE [metadata |-> <<>>, page_content |-> "local text b"]

get_relevant_documents(retr, query) ==
    IF retr.kind = "raise" THEN Raise("retriever failure")
    ELSE Return([i \in 1..retr.n |-> Doc(i)])

RECURSIVE local_context(_, _)
local_context(docs, i) ==
    IF i > Len(docs) THEN ""
    ELSE LET doc == docs[i]
             source == Get(doc.metadata, "source", "Unknown")
             page == Get(doc.metadata, "page", "N/A")
             chunk == Get(doc.metadata, "chunk", "N/A")
         IN  "[Document " \o ToString(i) \o "] " \o source \o "\n"
             \o (IF page # "N/A" THEN "Page: " \o page \o " | " ELSE "")
             \o (IF chunk # "N/A" THEN "Chunk: " \o chunk \o "\n" ELSE "")
             \o "Content: " \o doc.page_content \o "\n\n"
             \o local_context(docs, i + 1)

\* _retrieve_local with the documents the retriever returned
local_found(docs) ==
    [context |-> "=== LOCAL DOCUMENT RESULTS ===\n\n" \o local_context(docs, 1),
     sources |-> [i \in 1..Len(docs) |->
                    [type |-> "local",
                     source |-> Get(docs[i].metadata, "source", "Unknown"),
                     page |-> Get(docs[i].metadata, "page", "N/A"),
                     chunk |-> Get(docs[i].metadata, "chunk", "N/A"),
                     content |-> docs[i].page_content]],
     retrieval_type |-> "local_rag",
     num_results |-> Len(docs)]

\* _retrieve_local after its call of the retriever
local_outcome(got) ==
    IF got.raised THEN
        [context |-> "Error retrieving local documents: " \o got.exc, sources |-> <<>>,
         retrieval_type |-> "local_rag", error |-> got.exc]
    ELSE IF Len(got.val) = 0 THEN
        [context |-> "No relevant documents found in uploaded files.", sources |-> <<>>,
         retrieval_type |-> "local_rag", num_results |-> 0]
    ELSE local_found(got.val)

retrieve_local(query, local_retriever) ==
    IF local_retriever.kind = "none" THEN
        [context |-> "No local documents available.", sources |-> <<>>,
         retrieval_type |-> "local_rag", error |-> "No local retriever configured"]
    ELSE local_outcome(get_relevant_documents(local_retriever, query))

\* x if x else y
OrElse(x, y) == IF Len(x) > 0 THEN x ELSE y

RECURSIVE web_context(_, _)
web_context(web_results, i) ==
    IF i > Len(web_results) THEN ""
    ELSE LET r == web_results[i]
             snippet == Get(r, "snippet", "")
             url == Get(r, "url", "")
             content_to_use == OrElse(Get(r, "full_content", snippet), snippet)
         IN  "[Result " \o ToString(i) \o "] (" \o Get(r, "source", "Web Search") \o " - "
                 \o Get(r, "type", "web") \o ")\n"
             \o "Title: " \o Get(r, "title", "Unknown") \o "\n"
             \o (IF Len(url) > 0 THEN "URL: " \o url \o "\n" ELSE "")
             \o "Content:\n" \o content_to_use \o "\n"
             \o Rep("-", 70) \o "\n\n"
             \o web_context(web_results, i + 1)

\* self.web_search.search_and_extract(...) as the router calls it.  broken
\* says that the call itself raises (the failure that the except clauses of
\* _retrieve_web and _retrieve_hybrid are written for).
web_search_call(web_search, query, fetch_content, env) ==
    IF env.broken THEN Raise("search failure")
    ELSE Return(search_and_extract(web_search, query, fetch_content, env))

\* one entry of the sources of _retrieve_web
web_source(r) ==
    LET snippet == Get(r, "snippet", "") IN
    [type |-> "web",
     title |-> Get(r, "title", "Unknown"),
     url |-> Get(r, "url", ""),
     snippet |-> snippet,
     full_content |-> OrElse(Get(r, "full_content", snippet), snippet),
     source |-> Get(r, "source", "Web Search"),
     result_type |-> Get(r, "type", "web")]

\* _retrieve_web with the results the search returned
web_found(web_results, query) ==
    [context |-> "=== WEB SEARCH RESULTS (Tavily Enhanced) ===\n\n"
                 \o "Search Query: " \o query \o "\n" \o Rep("=", 70) \o "\n\n"
                 \o web_context(web_results, 1),
     sources |-> [i \in 1..Len(web_results) |-> web_source(web_results[i])],
     retrieval_type |-> "web_search",
     num_results |-> Len(web_results),
     raw_search_results |-> web_results]

\* _retrieve_web after its call of search_and_extract
web_outcome(got, query) ==
    IF got.raised THEN
        [context |-> "Error performing web search: " \o got.exc, sources |-> <<>>,
         retrieval_type |-> "web_search", error |-> got.exc, raw_search_results |-> <<>>]
    ELSE IF Len(got.val) = 0 THEN
        [context |-> "No web search results found for your query.", sources |-> <<>>,
         retrieval_type |-> "web_search", num_results |-> 0, raw_search_results |-> <<>>]
    ELSE web_found(got.val, query)

retrieve_web(cfg, query, env) ==
    IF Len(cfg.web_search) = 0 THEN
        [context |-> "Web search is not enabled.", sources |-> <<>>,
         retrieval_type |-> "web_search", error |-> "Web search not enabled"]
    ELSE web_outcome(web_search_call(cfg.web_search[1], query, cfg.fetch_full_content, env), query)

RECURSIVE hybrid_local_context(_, _)
hybrid_local_context(local_results, i) ==
    IF i > Len(local_results) THEN ""
    ELSE LET r == local_results[i] IN
         "[Local " \o ToString(i) \o "] " \o r.source \o "\n"
         \o (IF r.page # "N/A" THEN "Page: " \o r.page \o " | " ELSE "")
         \o (IF r.chunk # "N/A" THEN "Chunk: " \o r.chunk \o "\n" ELSE "")
         \o "Content: " \o r.content \o "\n\n"
         \o hybrid_local_context(local_results, i + 1)

RECURSIVE hybrid_web_context(_, _)
hybrid_web_context(web_results, i) ==
    IF i > Len(web_results) THEN ""
    ELSE LET r == web_results[i]
             url == Get(r, "url", "")
         IN  "[Web " \o ToString(i) \o "] " \o Get(r, "title", "Unknown")
                 \o " (" \o Get(r, "source", "Web Search") \o ")\n"
             \o (IF Len(url) > 0 THEN "URL: " \o url \o "\n" ELSE "")
             \o "Content: " \o Get(r, "full_content", Get(r, "snippet", "")) \o "\n\n"
             \o hybrid_web_context(web_results, i + 1)

\* the local results of _retrieve_hybrid; a failing retriever leaves none
hybrid_local_results(local_got) ==
    IF local_got.raised THEN <<>>
    ELSE [i \in 1..Len(local_got.val) |->
            [source |-> Get(local_got.val[i].metadata, "source", "Unknown"),
             page |-> Get(local_got.val[i].metadata, "page", "N/A"),
             chunk |-> Get(local_got.val[i].metadata, "chunk", "N/A"),
             content |-> local_got.val[i].page_content]]

\* the web results of _retrieve_hybrid; a failing search leaves none
hybrid_web_results(web_got) == IF web_got.raised THEN <<>> ELSE web_got.val

\* the context text of _retrieve_hybrid
hybrid_context(local_results, web_results) ==
    "=== HYBRID RETRIEVAL RESULTS ===\n\n"
    \o "LOCAL DOCUMENTS:\n" \o Rep("-", 70) \o "\n"
    \o (IF Len(local_results) > 0 THEN hybrid_local_context(local_results, 1)
        ELSE "No local documents found.\n\n")
    \o "\nWEB SEARCH RESULTS (Tavily Enhanced):\n" \o Rep("-", 70) \o "\n"
    \o (IF Len(web_results) > 0 THEN hybrid_web_context(web_results, 1)
        ELSE "No web results found.\n\n")

\* the local entries of the sources of _retrieve_hybrid
hybrid_local_sources(local_results) ==
    [i \in 1..Len(local_results) |->
        [type |-> "local", source |-> local_results[i].source,
         page |-> local_results[i].page, chunk |-> local_results[i].chunk,
         content |-> local_results[i].content]]

\* the web entries of the sources of _retrieve_hybrid
hybrid_web_sources(web_results) ==
    [i \in 1..Len(web_results) |->
        [type |-> "web",
         title |-> Get(web_results[i], "title", "Unknown"),
         url |-> Get(web_results[i], "url", ""),
         content |-> Get(web_results[i], "full_content", Get(web_results[i], "snippet", "")),
         source |-> Get(web_results[i], "source", "Web Search")]]

\* a source list that puts the web entries first
hybrid_sources_web_first(local_results, web_results) ==
    hybrid_web_sources(web_results) \o hybrid_local_sources(local_results)

\* the sources of _retrieve_hybrid
hybrid_sources(local_results, web_results) ==
    hybrid_local_sources(local_results) \o hybrid_web_sources(web_results)

\* _retrieve_hybrid after its two retrievals
hybrid_combined(local_results, web_results) ==
    [context |-> hybrid_context(local_results, web_results),
     sources |-> hybrid_sources(local_results, web_results),
     retrieval_type |-> "hybrid",
     num_local_results |-> Len(local_results),
     num_web_results |-> Len(web_results),
     total_results |-> Len(local_results) + Len(web_results),
     raw_search_results |-> web_results]

\* the two retrievals of _retrieve_hybrid without their own try blocks: the
\* exception of one side reaches the except clause of the method
hybrid_unguarded(local_got, web_got) ==
    IF local_got.raised \/ web_got.raised THEN
        LET exc == IF local_got.raised THEN local_got.exc ELSE web_got.exc IN
        [context |-> "Error in hybrid retrieval: " \o exc, sources |-> <<>>,
         retrieval_type |-> "hybrid", error |-> exc, raw_search_results |-> <<>>]
    ELSE hybrid_combined(hybrid_local_results(local_got), hybrid_web_results(web_got))

\* _retrieve_hybrid after the calls of its two delegates, each in its own
\* try block
hybrid_guarded(local_got, web_got) ==
    hybrid_combined(hybrid_local_results(local_got), hybrid_web_results(web_got))

retrieve_hybrid(cfg, query, local_retriever, env) ==
    hybrid_guarded(
        IF local_retriever.kind = "none" THEN Return(<<>>)
        ELSE get_relevant_documents(local_retriever, query),
        IF Len(cfg.web_search) = 0 THEN Return(<<>>)
        ELSE web_search_call(cfg.web_search[1], query, cfg.fetch_full_content, env))

router_web_keywords ==
    {"latest", "current", "recent", "news", "today", "now", "update", "2024", "2025",
     "trending", "new", "latest news", "current events", "breaking",
     "recent developments", "today news"}

local_keywords ==
    {"document", "file", "uploaded", "pdf", "image", "my", "attachment", "what does",
     "according to", "based on"}

fallback_datasource_selection(has_uploaded_docs, query) ==
    LET query_lower == Lower(query)
        has_web_intent == AnyIn(router_web_keywords, query_lower)
        has_local_intent == AnyIn(local_keywords, query_lower)
    IN  IF has_web_intent /\ has_local_intent /\ has_uploaded_docs THEN "hybrid"
        ELSE IF has_local_intent /\ has_uploaded_docs THEN "local_rag"
        ELSE "web_search"

\* a history that keeps its newest entry first
save_routing_history_newest_first(history, res) ==
    <<[query |-> Get(res, "query", ""),
       datasource |-> Get(Get(res, "routing", <<>>), "datasource", "unknown"),
       reasoning |-> Get(Get(res, "routing", <<>>), "reasoning", ""),
       confidence |-> Get(Get(res, "routing", <<>>), "confidence", 0),
       retrieval_type |-> Get(res, "retrieval_type", "unknown"),
       num_sources |-> Len(Get(res, "sources", <<>>)),
       error |-> IF "error" \in DOMAIN res THEN <<res.error>> ELSE <<>>]>> \o history

\* An error of a history entry is <<>> for None and <<message>> otherwise.
\* The timestamp of an entry is left out.
save_routing_history(history, res) ==
    Append(history,
           [query |-> Get(res, "query", ""),
            datasource |-> Get(Get(res, "routing", <<>>), "datasource", "unknown"),
            reasoning |-> Get(Get(res, "routing", <<>>), "reasoning", ""),
            confidence |-> Get(Get(res, "routing", <<>>), "confidence", 0),
            retrieval_type |-> Get(res, "retrieval_type", "unknown"),
            num_sources |-> Len(Get(res, "sources", <<>>)),
            error |-> IF "error" \in DOMAIN res THEN <<res.error>> ELSE <<>>])

\* Step 1 of route_query.  Without a classifier the router decides by its
\* own keywords and calls nothing that env describes.  With one, fault says
\* that classify_query raises (a failure that the classifier's own fallback
\* does not absorb), and an llm of kind "decision" stands for a
\* query_classifier object whose classify_query returns the dict as it is,
\* whatever its datasource.
route_classify(cfg, res, query, has_uploaded_docs, env) ==
    IF ~cfg.has_classifier THEN
        Return(Put(res, "routing",
                   [datasource |-> fallback_datasource_selection(has_uploaded_docs, query),
                    reasoning |-> "Default routing (classifier unavailable)",
                    confidence |-> 50]))
    ELSE IF env.fault THEN Raise("classification failure")
    ELSE IF env.llm.kind = "decision" THEN Return(Put(res, "routing", env.llm.value))
    ELSE Return(Put(res, "routing", classify_query(query, has_uploaded_docs, env.llm)))

\* a dispatch that sends an unrecognised datasource to the local documents
route_dispatch_local_default(cfg, datasource, query, local_retriever, env) ==
    IF datasource = "web_search" THEN retrieve_web(cfg, query, env)
    ELSE IF datasource = "hybrid" THEN retrieve_hybrid(cfg, query, local_retriever, env)
    ELSE retrieve_local(query, local_retriever)

\* Step 2 of route_query
route_dispatch(cfg, datasource, query, local_retriever, env) ==
    IF datasource = "local_rag" THEN retrieve_local(query, local_retriever)
    ELSE IF datasource = "web_search" THEN retrieve_web(cfg, query, env)
    ELSE IF datasource = "hybrid" THEN retrieve_hybrid(cfg, query, local_retriever, env)
    ELSE retrieve_web(cfg, query, env)

\* an except clause that lets the exception go on to the caller
route_except_reraising(history, res, exc) ==
    [result |-> res, history |-> history, raised |-> TRUE]

\* The except clause of route_query
route_except(history, res, exc) ==
    [result |-> Put(Put(res, "error", exc), "context", "Error during routing: " \o exc),
     history |-> history,
     raised |-> FALSE]

\* The try block of route_query after step 1, up to the end of step 2
route_classified(cfg, result0, classified, query, local_retriever, env) ==
    IF classified.raised THEN [raised |-> TRUE, exc |-> classified.exc, result |-> result0]
    ELSE [raised |-> FALSE,
          result |-> Update(classified.val,
                            route_dispatch(cfg, classified.val.routing.datasource, query,
                                           local_retriever, env))]

\* the dict route_query starts with
route_default(query) ==
    [query |-> query,
     routing |-> [datasource |-> "web_search", reasoning |-> "Default routing", confidence |-> 50],
     context |-> "", sources |-> <<>>, raw_search_results |-> <<>>]

\* The try block of route_query up to the end of its step 2: the dict as the
\* block leaves it and, when the block raised, the exception.
route_try(cfg, query, local_retriever, has_uploaded_docs, env) ==
    route_classified(cfg, route_default(query),
                     route_classify(cfg, route_default(query), query, has_uploaded_docs, env),
                     query, local_retriever, env)

\* bool(entry.get('error'))
HasError(entry) == Len(entry.error) > 0 /\ Len(entry.error[1]) > 0

\* a loop that leaves the confidence of failed entries out of the total
RECURSIVE stats_loop_skipping_failed(_, _, _)
stats_loop_skipping_failed(history, i, acc) ==
    IF i > Len(history) THEN acc
    ELSE LET entry == history[i]
             source == entry.datasource
             ret_type == Get(entry, "retrieval_type", "unknown")
         IN  stats_loop_skipping_failed(history, i + 1,
                [by_source |-> Put(acc.by_source, source, Get(acc.by_source, source, 0) + 1),
                 by_retrieval_type |-> Put(acc.by_retrieval_type, ret_type,
                                           Get(acc.by_retrieval_type, ret_type, 0) + 1),
                 total_confidence |-> IF HasError(entry) THEN acc.total_confidence
                                      ELSE acc.total_confidence + entry.confidence,
                 error_count |-> IF HasError(entry) THEN acc.error_count + 1 ELSE acc.error_count])

\* The loop of get_routing_stats over entries i..len(history)
RECURSIVE stats_loop(_, _, _)
stats_loop(history, i, acc) ==
    IF i > Len(history) THEN acc
    ELSE LET entry == history[i]
             source == entry.datasource
             ret_type == Get(entry, "retrieval_type", "unknown")
         IN  stats_loop(history, i + 1,
                [by_source |-> Put(acc.by_source, source, Get(acc.by_source, source, 0) + 1),
                 by_retrieval_type |-> Put(acc.by_retrieval_type, ret_type,
                                           Get(acc.by_retrieval_type, ret_type, 0) + 1),
                 total_confidence |-> acc.total_confidence + entry.confidence,
                 error_count |-> IF HasError(entry) THEN acc.error_count + 1 ELSE acc.error_count])

\* a / b as an exact fraction; 0.0 is Ratio(0, 1)
Ratio(a, b) == [num |-> a, den |-> b]

\* IntelligentSourceRouter.get_routing_stats
get_routing_stats(history) ==
    IF Len(history) = 0 THEN
        [total_queries |-> 0, by_source |-> <<>>, by_retrieval_type |-> <<>>,
         avg_confidence |-> Ratio(0, 1), error_count |-> 0]
    ELSE
        LET total == Len(history)
            acc == stats_loop(history, 1,
                              [by_source |-> <<>>, by_retrieval_type |-> <<>>,
                               total_confidence |-> 0, error_count |-> 0])
        IN  [total_queries |-> total,
             by_source |-> acc.by_source,
             by_retrieval_type |-> acc.by_retrieval_type,
             avg_confidence |-> IF total > 0 THEN Ratio(acc.total_confidence, total) ELSE Ratio(0, 1),
             error_count |-> acc.error_count,
             success_rate |-> IF total > 0 THEN Ratio(total - acc.error_count, total) ELSE Ratio(0, 1),
             routing_history |-> history]

\* get_routing_stats in steps, as it runs while other callers append to the
\* list.  The frame of a call: the total it took (total = len(...)), the
\* index of the list iterator, and the sums so far.
stats_enter(history) ==
    [pc |-> "loop", total |-> Len(history), i |-> 1,
     acc |-> [by_source |-> <<>>, by_retrieval_type |-> <<>>,
              total_confidence |-> 0, error_count |-> 0]]

\* one iteration of the loop: the iterator yields the i-th entry of the list
\* as it is now
stats_iteration(frame, history) ==
    [frame EXCEPT !.i = frame.i + 1,
                  !.acc = stats_loop(SubSeq(history, frame.i, frame.i), 1, frame.acc)]

\* the dict returned when the iterator is exhausted
stats_return(frame, history) ==
    [total_queries |-> frame.total,
     by_source |-> frame.acc.by_source,
     by_retrieval_type |-> frame.acc.by_retrieval_type,
     avg_confidence |-> IF frame.total > 0 THEN Ratio(frame.acc.total_confidence, frame.total)
                        ELSE Ratio(0, 1),
     error_count |-> frame.acc.error_count,
     success_rate |-> IF frame.total > 0 THEN Ratio(frame.total - frame.acc.error_count, frame.total)
                      ELSE Ratio(0, 1),
     routing_history |-> history]

-----------------------------------------------------------------------------
(* Bounds and input sets                                                   *)

MaxItems == 2       \* most items in one provider payload
MaxLimit == 2       \* largest max_results a WebSearchEnhanced is built with

NoInput == [none |-> TRUE]
NoOutput == [none |-> TRUE]
NoReader == [pc |-> "idle"]
NoResult == [none |-> TRUE]
NoConfig == [none |-> TRUE]

\* the queries of the test list in query_classifier.py, and a few more
Queries ==
    {"What is machine learning?", "Latest AI news", "Summarize my uploaded PDF",
     "According to my document, what is the conclusion?",
     "Compare my document with current industry trends",
     "Review the paper", "Python tips", ""}

Unasked == [kind |-> "unasked"]

Payloads(answers) ==
    {[kind |-> "raise"]} \cup
    {[kind |-> "ok", answer |-> b, n |-> k] : b \in answers, k \in 0..MaxItems}

\* a credential and, when it is there, what the provider answers
Gated(answers) ==
    {[key |-> FALSE, resp |-> Unasked]} \cup
    {[key |-> TRUE, resp |-> r] : r \in Payloads(answers)}

GoogleCases ==
    {c \in [key : BOOLEAN, cx : BOOLEAN, resp : {Unasked}] : ~(c.key /\ c.cx)}
    \cup {[key |-> TRUE, cx |-> TRUE, resp |-> r] : r \in Payloads({FALSE})}

SearchInput(query, limit, t, w, a, g, b) ==
    [query |-> query,
     ws |-> [max_results |-> limit, tavily_api_key |-> t.key, google_api_key |-> g.key,
             google_search_engine_id |-> g.cx, bing_api_key |-> b.key],
     env |-> [tavily |-> t.resp, wikipedia |-> w, arxiv |-> a, google |-> g.resp, bing |-> b.resp]]

SearchQueries == {"what is python"}

SearchInputs ==
    {SearchInput(q, l, t, w, a, g, b) :
        q \in SearchQueries, l \in 1..MaxLimit, t \in Gated(BOOLEAN),
        w \in Payloads({FALSE}), a \in Payloads({FALSE}), g \in GoogleCases,
        b \in Gated({FALSE})}

JsonObject(fields) == [type |-> "object", fields |-> fields]

Confidences == {Num(95), Num(150), Str("0.7"), Str("high"), Null}

\* the dicts an LLM answer may hold: every key may be missing
AnswerDicts ==
    LET ds == {"local_rag", "web_search", "hybrid", "database"}
        full == {[datasource |-> d, reasoning |-> "llm reasoning", confidence |-> c] :
                    d \in ds, c \in Confidences}
    IN  full
        \cup {[datasource |-> r.datasource, reasoning |-> r.reasoning] : r \in full}
        \cup {[datasource |-> r.datasource, confidence |-> r.confidence] : r \in full}
        \cup {[reasoning |-> r.reasoning, confidence |-> r.confidence] : r \in full}

AnswerTexts ==
    {[form |-> "text", raw |-> s, reasoning |-> r, confidence |-> c] :
        s \in {"Use local_rag here", "hybrid", "I suggest web_search",
               "local_rag or hybrid or web_search", "no idea"},
        r \in {<<>>, <<"from the text">>},
        c \in {<<>>, <<"0.95">>, <<"1.2.3">>}}

Contents ==
    {[form |-> "json", value |-> JsonObject(d)] : d \in AnswerDicts}
    \cup {[form |-> "json", value |-> [type |-> "array"]]}
    \cup {[form |-> "embedded", value |-> JsonObject(d)] :
            d \in {x \in AnswerDicts : DOMAIN x = {"datasource", "reasoning"}}}
    \cup AnswerTexts

LLMBehaviours == {[kind |-> "raise"]} \cup {[kind |-> "answer", content |-> c] : c \in Contents}

ClassifyInputs ==
    [query : Queries, has_uploaded_docs : BOOLEAN, llm : LLMBehaviours]

-----------------------------------------------------------------------------
(* Specifications of the pure functions: Init draws the inputs, the action *)
(* applies the function.                                                   *)

RouterIdle ==
    /\ config = NoConfig
    /\ routing_history = <<>>
    /\ result = NoResult
    /\ raised = FALSE
    /\ stats = <<>>
    /\ calls = 0
    /\ reader = NoReader
    /\ writers = <<>>

Apply(op, value) ==
    /\ out = NoOutput
    /\ out' = [op |-> op, val |-> value]
    /\ UNCHANGED <<config, routing_history, result, raised, stats, calls, inp, reader, writers>>

InitSearch == RouterIdle /\ inp \in SearchInputs /\ out = NoOutput

Search == Apply("search", search(inp.ws, inp.query, 0, inp.env))

NextSearch == Search

SpecSearch == InitSearch /\ [][NextSearch]_vars

InitClassify == RouterIdle /\ inp \in ClassifyInputs /\ out = NoOutput

ClassifyQuery == Apply("classify_query", classify_query(inp.query, inp.has_uploaded_docs, inp.llm))

FallbackClassification ==
    Apply("_fallback_classification", fallback_classification(inp.query, inp.has_uploaded_docs))

FallbackDatasourceSelection ==
    Apply("_fallback_datasource_selection",
          [datasource |-> fallback_datasource_selection(inp.has_uploaded_docs, inp.query)])

\* _parse_json_response on the content of an LLM answer; its exception, if
\* any, is part of the value
ParseJsonResponse ==
    /\ inp.llm.kind = "answer"
    /\ Apply("_parse_json_response", parse_json_response(inp.llm.content))

NextClassify == ClassifyQuery \/ FallbackClassification \/ FallbackDatasourceSelection

SpecClassify == InitClassify /\ [][NextClassify]_vars

\* _parse_json_response on its own, over the answers of the LLM
NextParse == ParseJsonResponse

SpecParse == InitClassify /\ [][NextParse]_vars

-----------------------------------------------------------------------------
(* The router: construction, route_query and get_routing_stats             *)

MaxCalls == 2       \* route_query calls in one run
MaxDocs == 2        \* most documents the local retriever returns
MaxStatsCalls == 2  \* get_routing_stats calls between two route_query calls

default_web_max_results == 5

\* the WebSearchEnhanced the router builds; of the credentials only the
\* Tavily key is set in the environment
RouterWebSearch ==
    [max_results |-> default_web_max_results, tavily_api_key |-> TRUE,
     google_api_key |-> FALSE, google_search_engine_id |-> FALSE, bing_api_key |-> FALSE]

\* the default router, one whose classifier failed to initialise, and one
\* with web search disabled
RouterConfigs ==
    {[has_classifier |-> TRUE, web_search |-> <<RouterWebSearch>>, fetch_full_content |-> TRUE],
     [has_classifier |-> FALSE, web_search |-> <<RouterWebSearch>>, fetch_full_content |-> FALSE],
     [has_classifier |-> TRUE, web_search |-> <<>>, fetch_full_content |-> TRUE]}

RouterQueries == {"What is machine learning?", "Summarize my uploaded PDF"}

RouterLLM ==
    {[kind |-> "raise"],
     [kind |-> "answer",
      content |-> [form |-> "json",
                   value |-> JsonObject([datasource |-> "local_rag", reasoning |-> "llm reasoning",
                                         confidence |-> Num(95)])]],
     [kind |-> "answer",
      content |-> [form |-> "json",
                   value |-> JsonObject([datasource |-> "hybrid", reasoning |-> "llm reasoning"])]]}

Retrievers ==
    {[kind |-> "none"], [kind |-> "raise"]} \cup {[kind |-> "docs", n |-> k] : k \in {0, MaxDocs}}

\* the web as the router's calls meet it: every provider failing and no
\* page reachable, or Tavily answering and every page readable
RouterWebs ==
    {[tavily |-> [kind |-> "raise"], wikipedia |-> [kind |-> "raise"], arxiv |-> [kind |-> "raise"],
      google |-> Unasked, bing |-> Unasked, broken |-> FALSE,
      pages |-> [i \in 1..(MaxItems + 1) |-> [kind |-> "raise"]]],
     [tavily |-> [kind |-> "ok", answer |-> TRUE, n |-> 1], wikipedia |-> [kind |-> "raise"],
      arxiv |-> [kind |-> "raise"], google |-> Unasked, bing |-> Unasked, broken |-> FALSE,
      pages |-> [i \in 1..(MaxItems + 1) |-> [kind |-> "ok", text |-> "  Page   text\n of the site "]]]}

\* a search chain whose search_and_extract raises
BrokenWeb ==
    [tavily |-> [kind |-> "raise"], wikipedia |-> [kind |-> "raise"], arxiv |-> [kind |-> "raise"],
     google |-> Unasked, bing |-> Unasked, broken |-> TRUE,
     pages |-> [i \in 1..(MaxItems + 1) |-> [kind |-> "raise"]]]

RouterEnv(fault, llm, web) ==
    [fault |-> fault, llm |-> llm, tavily |-> web.tavily, wikipedia |-> web.wikipedia,
     arxiv |-> web.arxiv, google |-> web.google, bing |-> web.bing, pages |-> web.pages,
     broken |-> web.broken]

\* the inputs of one route_query call; when the classification raises the
\* rest of the outside world is never asked
RouterInputs ==
    {[query |-> q, has_uploaded_docs |-> d, local_retriever |-> r, env |-> RouterEnv(FALSE, l, w)] :
        q \in RouterQueries, d \in BOOLEAN, r \in Retrievers, l \in RouterLLM, w \in RouterWebs}
    \cup
    {[query |-> q, has_uploaded_docs |-> d, local_retriever |-> [kind |-> "none"],
      env |-> RouterEnv(TRUE, [kind |-> "raise"], CHOOSE w \in RouterWebs : w.tavily.kind = "raise")] :
        q \in RouterQueries, d \in BOOLEAN}
    \cup
    {[query |-> q, has_uploaded_docs |-> TRUE, local_retriever |-> r,
      env |-> RouterEnv(FALSE, l, BrokenWeb)] :
        q \in RouterQueries, r \in {[kind |-> "none"], [kind |-> "docs", n |-> MaxDocs]},
        l \in RouterLLM}

\* a step 3 that runs ahead of the retrieval: the entry is made from the
\* query and the routing decision alone
route_finish_saving_before_retrieval(history, tried) ==
    IF tried.raised THEN route_except(history, tried.result, tried.exc)
    ELSE [result |-> tried.result,
          history |-> save_routing_history(history,
                                           [query |-> tried.result.query,
                                            routing |-> tried.result.routing]),
          raised |-> FALSE]

\* route_query after the try block up to step 2: step 3 saves the history,
\* the except clause answers an exception
route_finish(history, tried) ==
    IF tried.raised THEN route_except(history, tried.result, tried.exc)
    ELSE [result |-> tried.result,
          history |-> save_routing_history(history, tried.result),
          raised |-> FALSE]

\* route_try over the configurations and inputs of the specification,
\* computed once
RouteTried ==
    [c \in RouterConfigs, i \in RouterInputs |->
        route_try(c, i.query, i.local_retriever, i.has_uploaded_docs, i.env)]

\* IntelligentSourceRouter.route_query on the input i: the dict it returns,
\* the history it leaves, and whether an exception escaped it.
route_query(cfg, history, i) == route_finish(history, RouteTried[cfg, i])

Init ==
    /\ config \in RouterConfigs
    /\ routing_history = <<>>
    /\ result = NoResult
    /\ raised = FALSE
    /\ stats = <<>>
    /\ calls = 0
    /\ inp = NoInput
    /\ out = NoOutput
    /\ reader = NoReader
    /\ writers = <<>>

RouteQuery ==
    /\ calls < MaxCalls
    /\ \E i \in RouterInputs :
          LET r == route_query(config, routing_history, i)
          IN  /\ result' = r.result
              /\ routing_history' = r.history
              /\ raised' = r.raised
              /\ inp' = i
    /\ calls' = calls + 1
    /\ stats' = <<>>
    /\ UNCHANGED <<config, out, reader, writers>>

\* a get_routing_stats that consumes the history it reports
GetRoutingStats_consuming ==
    /\ Len(stats) < MaxStatsCalls
    /\ stats' = Append(stats, get_routing_stats(routing_history))
    /\ routing_history' = <<>>
    /\ UNCHANGED <<config, result, raised, calls, inp, out, reader, writers>>

GetRoutingStats ==
    /\ Len(stats) < MaxStatsCalls
    /\ stats' = Append(stats, get_routing_stats(routing_history))
    /\ UNCHANGED <<config, routing_history, result, raised, calls, inp, out, reader, writers>>

Next == RouteQuery \/ GetRoutingStats

Spec == Init /\ [][Next]_vars

-----------------------------------------------------------------------------
(* One router shared by callers of route_query and a caller of             *)
(* get_routing_stats.  The code takes no lock; list.append and one step of  *)
(* the list iterator are atomic, and the callers interleave between them.   *)

\* the route_query calls of the concurrent callers: keyword classification,
\* with and without a retriever
ConcurrentInputs ==
    {i \in RouterInputs :
        /\ ~i.env.fault /\ ~i.env.broken /\ i.env.llm.kind = "raise"
        /\ i.has_uploaded_docs
        /\ i.local_retriever.kind \in {"none", "docs"}
        /\ i.env.tavily.kind = "raise"}

\* The dicts get_routing_stats has returned, as their holders see them once
\* the list is history: 'routing_history' of a dict is the list object of
\* the router itself, not a copy, so it shows every later append.  The dict
\* returned for an empty history has no such key.
held_stats(held, history) ==
    [k \in 1..Len(held) |->
        IF "routing_history" \in DOMAIN held[k]
        THEN [held[k] EXCEPT !.routing_history = history]
        ELSE held[k]]

\* a call of route_query between the append of _save_routing_history and
\* its return: the dict it will return, and its input
route_saved(r, i) == [result |-> r.result, raised |-> r.raised, inp |-> i]

\* the sequence s without its n-th element
Without(s, n) == SubSeq(s, 1, n - 1) \o SubSeq(s, n + 1, Len(s))

\* a caller runs route_query up to the append of _save_routing_history, its
\* only access to the shared list; the caller has not returned yet
RouteQueryConcurrent ==
    /\ calls + Len(writers) < MaxCalls
    /\ \E i \in ConcurrentInputs :
          LET r == route_query(config, routing_history, i)
          IN  /\ routing_history' = r.history
              /\ stats' = held_stats(stats, r.history)
              /\ writers' = Append(writers, route_saved(r, i))
    /\ UNCHANGED <<config, result, raised, calls, inp, out, reader>>

\* a caller that has appended its entry returns from route_query
RouteQueryReturn ==
    /\ \E n \in 1..Len(writers) :
          /\ result' = writers[n].result
          /\ raised' = writers[n].raised
          /\ inp' = writers[n].inp
          /\ writers' = Without(writers, n)
    /\ calls' = calls + 1
    /\ UNCHANGED <<config, routing_history, stats, out, reader>>

\* get_routing_stats up to total = len(self.routing_history); on an empty
\* list it returns at once
StatsEnter ==
    /\ reader.pc = "idle"
    /\ Len(stats) < MaxStatsCalls
    /\ IF Len(routing_history) = 0
       THEN /\ stats' = Append(stats, get_routing_stats(routing_history))
            /\ UNCHANGED reader
       ELSE /\ reader' = stats_enter(routing_history)
            /\ UNCHANGED stats
    /\ UNCHANGED <<config, routing_history, result, raised, calls, inp, out, writers>>

\* one iteration of for entry in self.routing_history
StatsIterate ==
    /\ reader.pc = "loop"
    /\ reader.i <= Len(routing_history)
    /\ reader' = stats_iteration(reader, routing_history)
    /\ UNCHANGED <<config, routing_history, result, raised, stats, calls, inp, out, writers>>

\* the iterator is exhausted: get_routing_stats returns
StatsReturn ==
    /\ reader.pc = "loop"
    /\ reader.i > Len(routing_history)
    /\ stats' = Append(stats, stats_return(reader, routing_history))
    /\ reader' = NoReader
    /\ UNCHANGED <<config, routing_history, result, raised, calls, inp, out, writers>>

NextConcurrent ==
    RouteQueryConcurrent \/ RouteQueryReturn \/ StatsEnter \/ StatsIterate \/ StatsReturn

SpecConcurrent == Init /\ [][NextConcurrent]_vars

-----------------------------------------------------------------------------
(* One route_query call of a router whose query_classifier is an object    *)
(* that returns any decision, a datasource the dispatch does not know       *)
(* included                                                                 *)

ForeignDecisions ==
    {[kind |-> "decision",
      value |-> [datasource |-> d, reasoning |-> "foreign reasoning", confidence |-> 60,
                 query |-> q]] :
        d \in {"local_rag", "web_search", "hybrid", "database", ""}, q \in {"Python tips"}}

DispatchInputs ==
    {[query |-> "Python tips", has_uploaded_docs |-> TRUE, local_retriever |-> r,
      env |-> RouterEnv(FALSE, l, w)] :
        r \in Retrievers, l \in ForeignDecisions, w \in RouterWebs}

RouteQueryForeign ==
    /\ calls = 0
    /\ \E i \in DispatchInputs :
          LET r == route_finish(routing_history,
                                route_try(config, i.query, i.local_retriever,
                                          i.has_uploaded_docs, i.env))
          IN  /\ result' = r.result
              /\ routing_history' = r.history
              /\ raised' = r.raised
              /\ inp' = i
    /\ calls' = calls + 1
    /\ UNCHANGED <<config, stats, out, reader, writers>>

NextDispatch == RouteQueryForeign

SpecDispatch == Init /\ [][NextDispatch]_vars

-----------------------------------------------------------------------------
(* fetch_page_content as a function of the URL and of what its GET gives   *)

\* s followed by itself, k times over
RECURSIVE Doubled(_, _)
Doubled(s, k) == IF k = 0 THEN s ELSE Doubled(s \o s, k - 1)

FetchUrls ==
    {"", "https://example.org/a", "http://example.org/b", "ftp://example.org/c",
     "example.org/d", "httpx://example.org/e", "mailto:someone@example.org",
     "HTTP://EXAMPLE.ORG/f"}

\* the URL uses the HTTP or HTTPS scheme
Fetchable(url) == StartsWith(url, "http://") \/ StartsWith(url, "https://")

\* session.get given a URL that is not an http:// or https:// URL: the
\* session of _create_session has adapters for these two prefixes only, and
\* the call raises (InvalidSchema) before it connects
Refused == [kind |-> "raise", why |-> "schema"]

\* a GET that fails (timeout, error status, unparsable body), and pages:
\* empty, blank, short, and two longer than the content limit
FetchPages ==
    {[kind |-> "raise", why |-> w] : w \in {"timeout", "status", "parse"}}
    \cup {[kind |-> "ok", text |-> t] :
            t \in {"", " \n ", "  Page   text\n of the site ", "word",
                   Doubled("lorem ipsum\n  dolor ", 8), Doubled("x", 12)}}

FetchInputs ==
    {i \in [url : FetchUrls, page : FetchPages \cup {Refused}] :
        (StartsWith(i.url, "http") /\ ~Fetchable(i.url)) <=> i.page = Refused}

InitFetch == RouterIdle /\ inp \in FetchInputs /\ out = NoOutput

FetchPageContent == Apply("fetch_page_content", fetch_page_content(inp.url, inp.page))

NextFetch == FetchPageContent

SpecFetch == InitFetch /\ [][NextFetch]_vars

-----------------------------------------------------------------------------
(* The three retrieval methods as functions of the router's configuration, *)
(* the retriever and the outside world                                     *)

\* what the GET of a page gives: an error, a text, a text of whitespace only
PageCases ==
    {[kind |-> "raise"], [kind |-> "ok", text |-> "  Page   text\n of the site "],
     [kind |-> "ok", text |-> " \n "]}

\* the providers the router's chain reaches (it has the Tavily key only) and
\* the pages of their results; and the chain that raises
RetrieveWebs ==
    {[tavily |-> t, wikipedia |-> w, arxiv |-> [kind |-> "raise"], google |-> Unasked,
      bing |-> Unasked, broken |-> FALSE, pages |-> p] :
        t \in Payloads(BOOLEAN),
        w \in {[kind |-> "raise"], [kind |-> "ok", answer |-> FALSE, n |-> 1]},
        p \in [1..(MaxItems + 1) -> PageCases]}
    \cup {BrokenWeb}

RetrieveRetrievers ==
    {[kind |-> "none"], [kind |-> "raise"]} \cup {[kind |-> "docs", n |-> k] : k \in 0..MaxDocs}

RetrieveInputs ==
    [cfg : RouterConfigs, query : {"What is machine learning?"},
     local_retriever : RetrieveRetrievers, env : RetrieveWebs]

InitRetrieve == RouterIdle /\ inp \in RetrieveInputs /\ out = NoOutput

RetrieveLocal == Apply("_retrieve_local", retrieve_local(inp.query, inp.local_retriever))

RetrieveWeb == Apply("_retrieve_web", retrieve_web(inp.cfg, inp.query, inp.env))

RetrieveHybrid ==
    Apply("_retrieve_hybrid", retrieve_hybrid(inp.cfg, inp.query, inp.local_retriever, inp.env))

\* search_and_extract of the router's WebSearchEnhanced, called as the
\* router calls it
SearchAndExtract ==
    Apply("search_and_extract",
          search_and_extract(RouterWebSearch, inp.query, inp.cfg.fetch_full_content, inp.env))

NextRetrieve == RetrieveLocal \/ RetrieveWeb \/ RetrieveHybrid \/ SearchAndExtract

SpecRetrieve == InitRetrieve /\ [][NextRetrieve]_vars

-----------------------------------------------------------------------------
(* Properties                                                              *)

\* the pure function op has been applied to inp
Applied(op) == "op" \in DOMAIN out /\ out.op = op

\* C1: WebSearchEnhanced.search returns at least one result for every
\* combination of provider outcomes (results, empty, raising, no credential).
C1_SearchNeverEmpty == Applied("search") => Len(out.val.results) >= 1

\* every real provider declines, each in another way
C1_Witness ==
    /\ Applied("search")
    /\ ~inp.ws.tavily_api_key
    /\ inp.env.wikipedia.kind = "raise"
    /\ inp.env.arxiv = [kind |-> "ok", answer |-> FALSE, n |-> 0]
    /\ inp.ws.google_api_key /\ ~inp.ws.google_search_engine_id
    /\ inp.ws.bing_api_key /\ inp.env.bing.kind = "raise"
    /\ Len(out.val.results) = 2

\* C2: without uploaded documents the decision is web_search on all three
\* classification paths (classify_query, _fallback_classification,
\* _fallback_datasource_selection), whatever the query and the LLM answer.
C2_NoDocsMeansWeb ==
    ("op" \in DOMAIN out /\ out.op # "search" /\ ~inp.has_uploaded_docs)
        => out.val.datasource = "web_search"

\* the LLM answers hybrid for a user without documents
C2_Witness ==
    /\ Applied("classify_query")
    /\ ~inp.has_uploaded_docs
    /\ inp.llm.kind = "answer"
    /\ inp.llm.content.form = "json"
    /\ inp.llm.content.value.type = "object"
    /\ Get(inp.llm.content.value.fields, "datasource", "") = "hybrid"
    /\ out.val.datasource = "web_search"
    /\ out.val.confidence = 90

\* the datasource the LLM's answer names: the field of its JSON object, or the
\* token found in its text
AnsweredDatasource(llm) ==
    IF llm.kind # "answer" THEN "none"
    ELSE IF llm.content.form = "text" THEN
        (IF Contains(Lower(llm.content.raw), "local_rag") THEN "local_rag"
         ELSE IF Contains(Lower(llm.content.raw), "hybrid") THEN "hybrid" ELSE "web_search")
    ELSE IF llm.content.value.type # "object" THEN "none"
    ELSE Get(llm.content.value.fields, "datasource", "none")

HasDocumentPhrase(query) == \E p \in document_indicators : Contains(Lower(query), p)

\* C3 (as claimed): with documents and an LLM answer of local_rag, a query
\* without a document phrase is sent to web_search with confidence 0.85 and
\* the general-knowledge reasoning, and a query with a document phrase keeps
\* local_rag.
C3_GeneralKnowledgeOverride ==
    (Applied("classify_query") /\ inp.has_uploaded_docs /\ AnsweredDatasource(inp.llm) = "local_rag")
        => IF is_general_knowledge(inp.query) /\ ~HasDocumentPhrase(inp.query)
           THEN /\ out.val.datasource = "web_search"
                /\ out.val.confidence = 85
                /\ out.val.reasoning = "General knowledge question - using web search"
           ELSE out.val.datasource = "local_rag"

\* the order of the chain, and the name each provider puts on its results
ChainOrder == <<"tavily", "wikipedia", "arxiv", "google", "bing", "mock">>

ProviderName(p) ==
    CASE p = "tavily" -> "Tavily" [] p = "wikipedia" -> "Wikipedia" [] p = "arxiv" -> "ArXiv"
      [] p = "google" -> "Google" [] p = "bing" -> "Bing" [] p = "mock" -> "Local Cache"

\* what provider p alone returns on the input of the search
ProviderResults(p) ==
    CASE p = "tavily" -> search_tavily(inp.ws, inp.query, inp.ws.max_results, inp.env).results
      [] p = "wikipedia" -> search_wikipedia(inp.ws, inp.query, inp.ws.max_results, inp.env).results
      [] p = "arxiv" -> search_arxiv(inp.ws, inp.query, inp.ws.max_results, inp.env).results
      [] p = "google" -> search_google_api(inp.ws, inp.query, inp.ws.max_results, inp.env).results
      [] p = "bing" -> search_bing_api(inp.ws, inp.query, inp.ws.max_results, inp.env).results
      [] p = "mock" -> search_mock(inp.query)

\* C10: search calls the providers in the order Tavily, Wikipedia, ArXiv,
\* Google, Bing, mock, each at most once, and stops at the first that
\* returns a result: it returns that provider's list unmerged, so every
\* result carries the name of the highest-priority provider that answered.
C10_FirstProviderWins ==
    Applied("search") =>
        LET r == out.val
            n == Len(r.called)
        IN  /\ n >= 1
            /\ r.called = SubSeq(ChainOrder, 1, n)
            /\ \A k \in 1..(n - 1) : Len(ProviderResults(ChainOrder[k])) = 0
            /\ Len(ProviderResults(ChainOrder[n])) > 0
            /\ r.results = ProviderResults(ChainOrder[n])
            /\ \A i \in 1..Len(r.results) : r.results[i].source = ProviderName(ChainOrder[n])

\* ArXiv wins although Google and Bing would have answered too
C10_Witness ==
    /\ Applied("search")
    /\ out.val.called = <<"tavily", "wikipedia", "arxiv">>
    /\ Len(ProviderResults("google")) > 0
    /\ Len(ProviderResults("bing")) > 0
    /\ Len(out.val.results) = MaxItems
    /\ \A i \in 1..Len(out.val.results) : out.val.results[i].source = "ArXiv"

\* C4 (as claimed): every route_query call appends exactly one entry, the
\* calls that end in an error included: after N calls the history has N
\* entries.
C4_OneEntryPerCall == Len(routing_history) = calls

\* the classify_query call of the last route_query raised: there is a
\* classifier to call, and its call failed
ClassificationRaised == config.has_classifier /\ inp.env.fault

\* C5: route_query never lets a failure reach its caller: it returns an
\* outcome whatever the classifier, the retriever, the providers and the
\* fetcher do; when the classification itself raises, the outcome has a
\* web_search decision, a non-empty error and a context that describes it.
C5_RouteNeverRaises ==
    calls > 0 =>
        /\ ~raised
        /\ {"query", "routing", "context", "sources"} \subseteq DOMAIN result
        /\ ClassificationRaised =>
              /\ result.routing.datasource = "web_search"
              /\ "error" \in DOMAIN result
              /\ Len(result.error) > 0
              /\ Len(result.context) > 0
              /\ Contains(result.context, result.error)

\* the classification raised and the caller got an outcome
C5_Witness ==
    /\ calls > 0
    /\ ClassificationRaised
    /\ ~raised
    /\ "error" \in DOMAIN result
    /\ result.error = "classification failure"
    /\ result.context = "Error during routing: classification failure"

\* the sum of the counts of a dict
RECURSIVE SumValues(_)
SumValues(d) ==
    IF DOMAIN d = {} THEN 0
    ELSE LET k == CHOOSE x \in DOMAIN d : TRUE
         IN  d[k] + SumValues([x \in (DOMAIN d) \ {k} |-> d[x]])

\* C6 (as claimed): after K >= 1 route_query calls, successful or failing,
\* get_routing_stats reports total_queries = K, and the counts of by_source
\* and of by_retrieval_type each sum to K.
C6_StatsCountCalls ==
    \A k \in 1..Len(stats) :
        calls >= 1 =>
            /\ stats[k].total_queries = calls
            /\ SumValues(stats[k].by_source) = calls
            /\ SumValues(stats[k].by_retrieval_type) = calls

\* the reference fold: the sum of the recorded confidences
RECURSIVE SumConfidence(_)
SumConfidence(history) ==
    IF Len(history) = 0 THEN 0
    ELSE history[1].confidence + SumConfidence(Tail(history))

\* the reference fold: the entries whose error field is non-empty
FailedEntries(history) ==
    {i \in 1..Len(history) : history[i].error # <<>> /\ history[i].error # <<"">>}

\* C7: on a history of K >= 1 entries get_routing_stats equals the
\* reference fold: avg_confidence * K is the sum of the confidences,
\* error_count is the number of entries with a non-empty error, and
\* success_rate * K is K - error_count.
C7_StatsEqualFold ==
    \A k \in 1..Len(stats) :
        Len(routing_history) >= 1 =>
            LET s == stats[k]
                K == Len(routing_history)
            IN  /\ s.avg_confidence.den # 0
                /\ s.avg_confidence.num * K = SumConfidence(routing_history) * s.avg_confidence.den
                /\ s.error_count = Cardinality(FailedEntries(routing_history))
                /\ s.success_rate.den # 0
                /\ s.success_rate.num * K = (K - s.error_count) * s.success_rate.den

\* statistics over two entries, one of them failed, with different confidences
C7_Witness ==
    /\ Len(stats) >= 1
    /\ Len(routing_history) = 2
    /\ stats[1].error_count = 1
    /\ routing_history[1].confidence # routing_history[2].confidence
    /\ stats[1].success_rate = Ratio(1, 2)

\* C8 (as claimed): on an empty history get_routing_stats returns the
\* zero-value statistics: every aggregate of the non-empty case (total,
\* both count tables, mean confidence, error count, success rate) is
\* present and zero or empty.
C8_EmptyStatsComplete ==
    \A k \in 1..Len(stats) :
        Len(routing_history) = 0 =>
            /\ {"total_queries", "by_source", "by_retrieval_type", "avg_confidence",
                "error_count", "success_rate"} \subseteq DOMAIN stats[k]
            /\ stats[k].total_queries = 0
            /\ DOMAIN stats[k].by_source = {}
            /\ DOMAIN stats[k].by_retrieval_type = {}
            /\ stats[k].avg_confidence.num = 0
            /\ stats[k].error_count = 0
            /\ stats[k].success_rate.num = 0

\* C9: get_routing_stats is idempotent and read-only: the calls made with
\* no route_query between them return equal results, and a call leaves
\* routing_history as it was.
C9_StatsIdempotent ==
    /\ [](\A j, k \in 1..Len(stats) : stats[j] = stats[k])
    /\ [][Len(stats') > Len(stats) => routing_history' = routing_history]_vars

\* two consecutive get_routing_stats calls on a non-empty history
C9_Witness ==
    /\ Len(stats) = 2
    /\ Len(routing_history) >= 1
    /\ stats[1] = stats[2]
    /\ stats[2].total_queries = Len(routing_history)

\* the LLM answered a JSON object whose datasource is missing or is not one
\* of the three sources
AnsweredUnknownSource(llm) ==
    /\ llm.kind = "answer"
    /\ llm.content.form \in {"json", "embedded"}
    /\ llm.content.value.type = "object"
    /\ Get(llm.content.value.fields, "datasource", "none") \notin valid_sources

\* C11 (as claimed): every decision of classify_query has a datasource among
\* local_rag, web_search and hybrid, and an answer whose datasource is
\* missing or is any other value yields web_search.
C11_DatasourceCoerced ==
    Applied("classify_query") =>
        /\ out.val.datasource \in valid_sources
        /\ AnsweredUnknownSource(inp.llm) => out.val.datasource = "web_search"

\* C12: classify_query returns a decision whatever the LLM does (raising,
\* text without JSON, JSON that is not an object), and when the LLM call
\* fails the decision is exactly that of _fallback_classification for the
\* same query and has_uploaded_docs.
C12_ClassifyNeverRaises ==
    Applied("classify_query") =>
        /\ DOMAIN out.val = {"datasource", "reasoning", "confidence", "query"}
        /\ out.val.query = inp.query
        /\ inp.llm.kind = "raise" =>
              out.val = fallback_classification(inp.query, inp.has_uploaded_docs)

\* the LLM call failed and the keyword heuristic chose hybrid
C12_Witness ==
    /\ Applied("classify_query")
    /\ inp.llm.kind = "raise"
    /\ inp.has_uploaded_docs
    /\ out.val.datasource = "hybrid"
    /\ out.val.confidence = 75


\* the retriever of the last route_query call is absent or returns no document
RetrieverAbsentOrEmpty(retr) ==
    \/ retr.kind = "none"
    \/ retr.kind = "docs" /\ retr.n = 0

\* the last route_query call was routed to _retrieve_local
RoutedLocal ==
    /\ calls > 0
    /\ ~raised
    /\ "retrieval_type" \in DOMAIN result
    /\ result.routing.datasource = "local_rag"

\* C13: in local mode, when the local retriever is absent or returns no
\* documents, the outcome has an empty source list and a populated error
\* field, the call returns normally, and the history entry of the call records
\* the error and a source count of 0.
C13_LocalAbsentOrEmptyIsError ==
    (RoutedLocal /\ RetrieverAbsentOrEmpty(inp.local_retriever)) =>
        /\ result.sources = <<>>
        /\ "error" \in DOMAIN result
        /\ Len(result.error) > 0
        /\ Len(routing_history) > 0
        /\ routing_history[Len(routing_history)].error = <<result.error>>
        /\ routing_history[Len(routing_history)].num_sources = 0

\* the part of C13 the code keeps: an absent retriever is reported as an error
\* of a call that returns normally, and the history entry records it
C13_AbsentIsError ==
    (RoutedLocal /\ inp.local_retriever.kind = "none") =>
        /\ result.sources = <<>>
        /\ result.error = "No local retriever configured"
        /\ routing_history[Len(routing_history)].error = <<result.error>>
        /\ routing_history[Len(routing_history)].num_sources = 0

\* the router has a search chain, and the call of the chain returns
ChainReturns == Len(inp.cfg.web_search) > 0 /\ ~inp.env.broken

\* what the chain of the router returns for the input
ChainResults == search(inp.cfg.web_search[1], inp.query, 0, inp.env).results

\* C14: in web mode, whenever web search is enabled the outcome has at least
\* one source, one per result returned by the chain and in the chain's order,
\* whichever providers and page fetches fail; the disabled configuration
\* yields zero sources.
C14_WebSourcesFollowChain ==
    Applied("_retrieve_web") =>
        /\ Len(inp.cfg.web_search) = 0 => out.val.sources = <<>>
        /\ ChainReturns =>
              /\ Len(out.val.sources) >= 1
              /\ Len(out.val.sources) = Len(ChainResults)
              /\ \A i \in 1..Len(ChainResults) :
                    /\ out.val.sources[i].type = "web"
                    /\ out.val.sources[i].title = ChainResults[i].title
                    /\ out.val.sources[i].url = ChainResults[i].url
                    /\ out.val.sources[i].snippet = ChainResults[i].snippet
                    /\ out.val.sources[i].source = ChainResults[i].source

\* web mode with content fetching on: Tavily's direct answer and a result
\* whose page cannot be fetched are both among the sources
C14_Witness ==
    /\ Applied("_retrieve_web") /\ ChainReturns /\ inp.cfg.fetch_full_content
    /\ inp.env.tavily.kind = "ok" /\ inp.env.tavily.answer /\ inp.env.tavily.n >= 1
    /\ inp.env.pages[2].kind = "raise"
    /\ Len(out.val.sources) = inp.env.tavily.n + 1
    /\ out.val.sources[2].full_content = out.val.sources[2].snippet

\* the entries of a source list that carry the tag
Tagged(sources, tag) == SelectSeq(sources, LAMBDA e : e.type = tag)

\* the local side of the hybrid input fails: no retriever, or it raises
LocalSideFails == inp.local_retriever.kind \in {"none", "raise"}

\* the web side of the hybrid input fails: no search chain, or it raises
WebSideFails == Len(inp.cfg.web_search) = 0 \/ inp.env.broken

\* what search_and_extract returns to the router for the input
ChainExtracted ==
    search_and_extract(inp.cfg.web_search[1], inp.query, inp.cfg.fetch_full_content, inp.env)

\* C15: in hybrid mode the two sides fail independently: when the local
\* retriever is absent or raises, the outcome still contains every web
\* result; when web search is disabled or raises, the outcome still contains
\* every local result.
C15_HybridSidesIndependent ==
    Applied("_retrieve_hybrid") =>
        /\ (LocalSideFails /\ ~WebSideFails) =>
              /\ out.val.raw_search_results = ChainExtracted
              /\ Len(out.val.sources) = Len(ChainExtracted)
              /\ \A i \in 1..Len(ChainExtracted) :
                    /\ out.val.sources[i].type = "web"
                    /\ out.val.sources[i].title = ChainExtracted[i].title
                    /\ out.val.sources[i].url = ChainExtracted[i].url
        /\ (WebSideFails /\ inp.local_retriever.kind = "docs") =>
              /\ Len(out.val.sources) = inp.local_retriever.n
              /\ \A i \in 1..inp.local_retriever.n :
                    /\ out.val.sources[i].type = "local"
                    /\ out.val.sources[i].content = Doc(i).page_content

\* a raising retriever beside a working chain: the web results are all there
C15_Witness ==
    /\ Applied("_retrieve_hybrid")
    /\ inp.local_retriever.kind = "raise" /\ ~WebSideFails
    /\ inp.env.tavily.kind = "ok" /\ inp.env.tavily.n = MaxItems
    /\ Len(out.val.sources) >= MaxItems

\* a delegate of the method that was applied raises
DelegateRaises ==
    \/ Applied("_retrieve_local") /\ inp.local_retriever.kind = "raise"
    \/ Applied("_retrieve_web") /\ Len(inp.cfg.web_search) > 0 /\ inp.env.broken
    \/ Applied("_retrieve_hybrid") /\ inp.local_retriever.kind = "raise"
    \/ Applied("_retrieve_hybrid") /\ Len(inp.cfg.web_search) > 0 /\ inp.env.broken

\* C16: in each of the three modes, when a delegate (local retriever, search
\* chain) raises an exception, the returned outcome carries a populated error
\* field and a context text describing the failure.
C16_DelegateFailureReported ==
    DelegateRaises =>
        /\ "error" \in DOMAIN out.val
        /\ Len(out.val.error) > 0
        /\ Contains(out.val.context, "Error")

\* the part of C16 the code keeps: the local and the web mode report the
\* exception of their delegate in the error field and in the context
C16_SingleModesReport ==
    (DelegateRaises /\ ~Applied("_retrieve_hybrid")) =>
        /\ "error" \in DOMAIN out.val
        /\ Len(out.val.error) > 0
        /\ Contains(out.val.context, out.val.error)

\* C17: every hybrid outcome has total_results = num_local_results +
\* num_web_results = length of sources; the sources are the local results
\* (tagged 'local') followed by the web results (tagged 'web'), each in
\* retrieval order.
C17_HybridCounts ==
    Applied("_retrieve_hybrid") =>
        LET nl == out.val.num_local_results
            nw == out.val.num_web_results
        IN  /\ out.val.total_results = nl + nw
            /\ out.val.total_results = Len(out.val.sources)
            /\ Len(Tagged(out.val.sources, "local")) = nl
            /\ Len(Tagged(out.val.sources, "web")) = nw
            /\ \A i \in 1..nl :
                  /\ out.val.sources[i].type = "local"
                  /\ out.val.sources[i].content = Doc(i).page_content
            /\ \A i \in 1..nw :
                  /\ out.val.sources[nl + i].type = "web"
                  /\ out.val.sources[nl + i].title = out.val.raw_search_results[i].title
                  /\ out.val.sources[nl + i].url = out.val.raw_search_results[i].url

\* a hybrid outcome with several different documents and several web
\* results
C17_Witness ==
    /\ Applied("_retrieve_hybrid")
    /\ out.val.num_local_results = MaxDocs
    /\ out.val.num_local_results >= 2
    /\ out.val.sources[1].content # out.val.sources[2].content
    /\ out.val.num_web_results >= 2
    /\ out.val.total_results = Len(out.val.sources)

\* the providers a search sent a request to
Requested(r) == {r.requests[i] : i \in 1..Len(r.requests)}

\* the search went as far as the k-th provider of the chain
Reached(k) == Len(out.val.called) >= k

\* C18: a credential-gated provider whose credential is missing (Tavily
\* without API key, Google without key or without search-engine id, Bing
\* without key) returns an empty result and issues no network request; the
\* chain then proceeds to the next provider.
C18_MissingCredentialSkips ==
    Applied("search") =>
        /\ ~inp.ws.tavily_api_key =>
              /\ search_tavily(inp.ws, inp.query, inp.ws.max_results, inp.env)
                     = [results |-> <<>>, requests |-> <<>>]
              /\ "Tavily" \notin Requested(out.val)
              /\ Reached(2)
        /\ (~inp.ws.google_api_key \/ ~inp.ws.google_search_engine_id) =>
              /\ search_google_api(inp.ws, inp.query, inp.ws.max_results, inp.env)
                     = [results |-> <<>>, requests |-> <<>>]
              /\ "Google" \notin Requested(out.val)
              /\ Reached(4) => Reached(5)
        /\ ~inp.ws.bing_api_key =>
              /\ search_bing_api(inp.ws, inp.query, inp.ws.max_results, inp.env)
                     = [results |-> <<>>, requests |-> <<>>]
              /\ "Bing" \notin Requested(out.val)
              /\ Reached(5) => (Reached(6) /\ out.val.results = search_mock(inp.query))

\* no credential at all and the two open providers down: the search goes
\* through the whole chain with requests to Wikipedia and ArXiv only
C18_Witness ==
    /\ Applied("search")
    /\ ~inp.ws.tavily_api_key /\ ~inp.ws.google_api_key /\ ~inp.ws.bing_api_key
    /\ out.val.called = ChainOrder
    /\ out.val.requests = <<"Wikipedia", "ArXiv">>

\* C19: when route_query and get_routing_stats run concurrently, every
\* stats result is consistent with one snapshot of the history:
\* total_queries is the sum of the by_source counts, and avg_confidence,
\* error_count and success_rate are computed over exactly the first
\* total_queries entries.
C19_StatsFromOneSnapshot ==
    \A k \in 1..Len(stats) :
        LET s == stats[k]
            K == s.total_queries
            snapshot == SubSeq(routing_history, 1, K)
        IN  K >= 1 =>
              /\ K = SumValues(s.by_source)
              /\ K = SumValues(s.by_retrieval_type)
              /\ s.avg_confidence = Ratio(SumConfidence(snapshot), K)
              /\ s.error_count = Cardinality(FailedEntries(snapshot))
              /\ s.success_rate = Ratio(K - s.error_count, K)

\* the part of C19 the code keeps: a call that no append interleaves with
\* reports the history as it was
C19_QuietReaderConsistent ==
    \A k \in 1..Len(stats) :
        (stats[k].total_queries >= 1
            /\ stats[k].total_queries = Len(stats[k].routing_history)) =>
            /\ stats[k].total_queries = SumValues(stats[k].by_source)
            /\ stats[k].avg_confidence
                  = Ratio(SumConfidence(stats[k].routing_history), stats[k].total_queries)

\* a confidence, in hundredths, inside [0, 1]
InUnitInterval(c) == c \in 0..100

\* C20: every routing decision returned by classify_query has a confidence
\* in [0, 1], for every confidence value the external classifier may supply.
C20_ConfidenceInUnitInterval ==
    Applied("classify_query") => InUnitInterval(out.val.confidence)

\* the part of C20 the code keeps: the confidences the code itself chooses
\* (keyword fallback, overrides, the default for a missing value) are in [0, 1]
C20_OwnConfidencesInUnitInterval ==
    /\ Applied("_fallback_classification") => InUnitInterval(out.val.confidence)
    /\ (Applied("classify_query") /\ inp.llm.kind = "raise") => InUnitInterval(out.val.confidence)

\* the LLM answered a JSON object (alone or inside a text)
AnsweredObject(llm) ==
    /\ llm.kind = "answer"
    /\ llm.content.form \in {"json", "embedded"}
    /\ llm.content.value.type = "object"

\* the confidence of the answered object is absent or not a number
ConfidenceUnusable(fields) ==
    \/ "confidence" \notin DOMAIN fields
    \/ PyFloat(fields.confidence).raised

\* the decision classify_query derives from the answered object: coercion of
\* the datasource, then the two overrides
DerivedDecision(fields, query, has_uploaded_docs) ==
    general_knowledge_override(
        no_docs_override(validate_datasource(fields), has_uploaded_docs),
        query, has_uploaded_docs)

\* C21: when the classifier's response yields a datasource but its confidence
\* is absent or not parsable as a number, classify_query returns the decision
\* derived from that response (after coercion and overrides), with confidence
\* 0.7 unless an override set its own; the classifier's datasource is not
\* discarded.
C21_UnusableConfidenceDefaults ==
    (Applied("classify_query") /\ AnsweredObject(inp.llm)
        /\ "datasource" \in DOMAIN inp.llm.content.value.fields
        /\ ConfidenceUnusable(inp.llm.content.value.fields)) =>
        LET fields == inp.llm.content.value.fields
            derived == DerivedDecision(fields, inp.query, inp.has_uploaded_docs)
        IN  /\ out.val.datasource = derived.datasource
            /\ Get(derived, "confidence", Null) = Get(fields, "confidence", Null)
                  => out.val.confidence = 70

\* the part of C21 the code keeps: an absent confidence becomes 0.7 and the
\* decision derived from the response is returned
C21_AbsentConfidenceDefaults ==
    (Applied("classify_query") /\ AnsweredObject(inp.llm)
        /\ "datasource" \in DOMAIN inp.llm.content.value.fields
        /\ "confidence" \notin DOMAIN inp.llm.content.value.fields) =>
        LET derived == DerivedDecision(inp.llm.content.value.fields, inp.query,
                                       inp.has_uploaded_docs)
        IN  /\ out.val.datasource = derived.datasource
            /\ "confidence" \notin DOMAIN derived => out.val.confidence = 70

\* the last route_query call had a general-knowledge query without a document
\* phrase, documents uploaded, web search enabled, and ran to its end
GeneralKnowledgeRouted ==
    /\ calls > 0
    /\ ~inp.env.fault /\ ~inp.env.broken
    /\ Len(config.web_search) > 0
    /\ inp.has_uploaded_docs
    /\ AnyIn(general_knowledge_patterns, Lower(inp.query))
    /\ ~HasDocumentPhrase(inp.query)

\* C22: for a query that matches a general-knowledge pattern and has no
\* document phrase, with documents uploaded and web search enabled,
\* route_query resolves the decision to web_search whatever the classifier
\* answers, and the outcome has at least one source.
C22_GeneralKnowledgeGoesToWeb ==
    GeneralKnowledgeRouted =>
        /\ result.routing.datasource = "web_search"
        /\ result.retrieval_type = "web_search"
        /\ Len(result.sources) >= 1

\* the part of C22 the code keeps: the decision is never local_rag, a
\* local_rag answer is turned into web_search, and there is a source
C22_GeneralKnowledgeNeverLocal ==
    GeneralKnowledgeRouted =>
        /\ result.routing.datasource \in {"web_search", "hybrid"}
        /\ AnsweredDatasource(inp.env.llm) = "local_rag" => result.routing.datasource = "web_search"
        /\ Len(result.sources) >= 1

\* C23: the number of results returned for a search with limit max_results
\* never exceeds max_results: for TavilySearchIntegration.search, a direct
\* answer included, and for WebSearchEnhanced.search whichever provider wins,
\* the mock provider included.
C23_ResultsWithinLimit ==
    Applied("search") =>
        /\ Len(search_tavily(inp.ws, inp.query, inp.ws.max_results, inp.env).results)
              <= inp.ws.max_results
        /\ Len(out.val.results) <= inp.ws.max_results

\* the part of C23 the code keeps: Tavily, Google and Bing cut the items of
\* their payload to max_results; Tavily's direct answer comes on top
C23_PayloadItemsWithinLimit ==
    Applied("search") =>
        /\ Len(SelectSeq(search_tavily(inp.ws, inp.query, inp.ws.max_results, inp.env).results,
                         LAMBDA r : r.type = "web")) <= inp.ws.max_results
        /\ Len(search_tavily(inp.ws, inp.query, inp.ws.max_results, inp.env).results)
              <= inp.ws.max_results + 1
        /\ Len(search_google_api(inp.ws, inp.query, inp.ws.max_results, inp.env).results)
              <= inp.ws.max_results
        /\ Len(search_bing_api(inp.ws, inp.query, inp.ws.max_results, inp.env).results)
              <= inp.ws.max_results

\* C24: fetch_page_content never raises and returns either none or a
\* non-empty text of at most 3000 characters; it returns none, without
\* issuing a request (session.get is not called), for an empty URL or a URL
\* that does not use the HTTP/HTTPS scheme, and none for any timeout, error
\* status or parse error.
C24_NoRequestOutsideHttp ==
    Applied("fetch_page_content") =>
        /\ DOMAIN out.val = {"content", "requested"}
        /\ \/ out.val.content = <<>>
           \/ /\ Len(out.val.content) = 1
              /\ Len(out.val.content[1]) \in 1..page_content_limit
        /\ (inp.url = "" \/ ~Fetchable(inp.url)) =>
              /\ out.val.content = <<>>
              /\ ~out.val.requested
        /\ inp.page.kind = "raise" => out.val.content = <<>>

\* the part of C24 the code keeps: the value is none or a non-empty text
\* within the limit; it is none for an empty URL and for every URL outside
\* the HTTP/HTTPS scheme, and session.get is not called when the URL is
\* empty or does not begin with the four letters http; it is none when the
\* GET fails
C24_FetchBoundedOrNone ==
    Applied("fetch_page_content") =>
        /\ DOMAIN out.val = {"content", "requested"}
        /\ \/ out.val.content = <<>>
           \/ /\ Len(out.val.content) = 1
              /\ Len(out.val.content[1]) \in 1..page_content_limit
        /\ (inp.url = "" \/ ~Fetchable(inp.url)) => out.val.content = <<>>
        /\ (inp.url = "" \/ ~StartsWith(inp.url, "http")) => ~out.val.requested
        /\ inp.page.kind = "raise" => out.val.content = <<>>

\* a page longer than the limit is cut to the limit
C24_Witness ==
    /\ Applied("fetch_page_content")
    /\ Fetchable(inp.url) /\ inp.page.kind = "ok"
    /\ Len(inp.page.text) > page_content_limit
    /\ Len(out.val.content[1]) = page_content_limit

\* the query has one of the explicit document keywords of the fallback
HasDocumentKeyword(query) == \E kw \in document_keywords : Contains(Lower(query), kw)

\* the query has one of the web-intent keywords of the fallback
HasWebKeyword(query) == \E kw \in classifier_web_keywords : Contains(Lower(query), kw)

\* C25: _fallback_classification is this function of (has_uploaded_docs,
\* document keyword, web keyword): no docs -> web_search (0.9); docs, document
\* keyword and web keyword -> hybrid (0.75); docs, document keyword and no web
\* keyword -> local_rag (0.85); every other case -> web_search.  It returns
\* local_rag or hybrid only when documents exist and a document keyword is
\* present.
C25_FallbackTable ==
    Applied("_fallback_classification") =>
        LET docs == inp.has_uploaded_docs
            dk == HasDocumentKeyword(inp.query)
            wk == HasWebKeyword(inp.query)
        IN  /\ ~docs => (out.val.datasource = "web_search" /\ out.val.confidence = 90)
            /\ (docs /\ dk /\ wk) => (out.val.datasource = "hybrid" /\ out.val.confidence = 75)
            /\ (docs /\ dk /\ ~wk) => (out.val.datasource = "local_rag" /\ out.val.confidence = 85)
            /\ (docs /\ ~dk) => out.val.datasource = "web_search"
            /\ out.val.datasource \in {"local_rag", "hybrid"} => (docs /\ dk)
            /\ out.val.query = inp.query

\* with documents, a query without any keyword goes to the web by default
C25_Witness ==
    /\ Applied("_fallback_classification")
    /\ inp.has_uploaded_docs
    /\ ~HasDocumentKeyword(inp.query) /\ ~HasWebKeyword(inp.query)
    /\ out.val.datasource = "web_search"

\* the classifier of the last route_query call returned a datasource that is
\* none of local_rag, web_search, hybrid
UnknownDatasourceRouted ==
    /\ calls > 0
    /\ config.has_classifier
    /\ inp.env.llm.kind = "decision"
    /\ inp.env.llm.value.datasource \notin valid_sources

\* C26: when the dispatch of route_query sees a datasource other than
\* local_rag, web_search or hybrid, it performs the web retrieval: the outcome
\* has retrieval_type web_search and the sources a web_search decision would
\* produce, and a history entry is still appended.
C26_UnknownDatasourceGoesToWeb ==
    UnknownDatasourceRouted =>
        /\ ~raised
        /\ result.retrieval_type = "web_search"
        /\ result.sources = retrieve_web(config, inp.query, inp.env).sources
        /\ result.context = retrieve_web(config, inp.query, inp.env).context
        /\ result.routing = inp.env.llm.value
        /\ Len(routing_history) = 1
        /\ routing_history[1].datasource = inp.env.llm.value.datasource
        /\ routing_history[1].retrieval_type = "web_search"
        /\ routing_history[1].num_sources = Len(result.sources)

\* an unknown datasource, a retriever with documents and a working chain: the
\* sources are the web results
C26_Witness ==
    /\ UnknownDatasourceRouted
    /\ inp.env.llm.value.datasource = "database"
    /\ inp.local_retriever.kind = "docs" /\ inp.local_retriever.n = MaxDocs
    /\ Len(config.web_search) > 0
    /\ Len(result.sources) >= 2
    /\ \A k \in 1..Len(result.sources) : result.sources[k].type = "web"
    /\ Len(routing_history) = 1

\* what search of the router's WebSearchEnhanced returns for the input
RouterChainResults == search(RouterWebSearch, inp.query, 0, inp.env).results

\* the full_content that the claim gives the result r, page being what the
\* GET of its URL gives
ExpectedFullContent(r, page) ==
    IF StartsWith(r.url, "http") /\ page.kind = "ok" /\ Len(page_text(page.text)) > 0
    THEN Take(page_text(page.text), page_content_limit)
    ELSE r.snippet

\* C27: search_and_extract with fetch_content enabled returns the results of
\* the chain, in the same number and order, each with full_content set: the
\* fetched text when the result has an HTTP URL and the fetch returned text,
\* otherwise its snippet; a failed fetch does not stop the enrichment of the
\* later results.  With fetch_content disabled the results are returned
\* unchanged and the dispatcher uses the snippet as content.
C27_ExtractKeepsResults ==
    (Applied("search_and_extract") /\ ~inp.env.broken) =>
        /\ Len(out.val) = Len(RouterChainResults)
        /\ inp.cfg.fetch_full_content =>
              \A i \in 1..Len(out.val) :
                  /\ "full_content" \in DOMAIN out.val[i]
                  /\ out.val[i].full_content
                        = ExpectedFullContent(RouterChainResults[i], inp.env.pages[i])
                  /\ \A k \in DOMAIN RouterChainResults[i] :
                        out.val[i][k] = RouterChainResults[i][k]
        /\ ~inp.cfg.fetch_full_content =>
              /\ out.val = RouterChainResults
              /\ \A i \in 1..Len(out.val) :
                    web_source(out.val[i]).full_content = RouterChainResults[i].snippet

\* the page of the first result cannot be fetched, the page of the second
\* can: the first has its snippet, the second the text of its page
C27_Witness ==
    /\ Applied("search_and_extract") /\ ~inp.env.broken /\ inp.cfg.fetch_full_content
    /\ Len(out.val) = 2
    /\ inp.env.pages[1].kind = "raise"
    /\ out.val[1].full_content = out.val[1].snippet
    /\ out.val[2].full_content = "Page text of the site"

\* the sequence s is the beginning of the sequence t
IsPrefix(s, t) == Len(s) <= Len(t) /\ SubSeq(t, 1, Len(s)) = s

\* C28: routing_history is append-only: every step of the router leaves each
\* entry already appended unchanged and in its position (the old history is a
\* prefix of the new one); a route_query call adds at most one entry and
\* get_routing_stats none.
C28_HistoryAppendOnly ==
    [][/\ IsPrefix(routing_history, routing_history')
       /\ Len(routing_history') <= Len(routing_history) + 1
       /\ calls' = calls => routing_history' = routing_history]_vars

\* two different entries in the history, the first one still in its place
\* after the second call and a get_routing_stats
C28_Witness ==
    /\ calls = 2
    /\ Len(routing_history) = 2
    /\ routing_history[1] # routing_history[2]
    /\ Len(stats) >= 1

\* the datasources whose literal token appears in the text
NamedDatasources(raw) == {d \in valid_sources : Contains(Lower(raw), d)}

\* the answer holds no parsable JSON object
AnsweredText == inp.llm.kind = "answer" /\ inp.llm.content.form = "text"

\* C29: when the classifier's response contains no parsable structured
\* object, _parse_json_response decides by the datasource tokens present in
\* the raw text: the datasource whose token appears, web_search when none
\* appears, and one of the named datasources when several appear.
C29_TokensDecide ==
    (Applied("_parse_json_response") /\ AnsweredText) =>
        LET named == NamedDatasources(inp.llm.content.raw) IN
        /\ ~out.val.raised
        /\ named = {} => out.val.val.fields.datasource = "web_search"
        /\ named # {} => out.val.val.fields.datasource \in named

\* the part of C29 the code keeps: when _parse_json_response returns, the
\* tokens decide (local_rag before hybrid, web_search otherwise)
C29_TokensDecideOnReturn ==
    (Applied("_parse_json_response") /\ AnsweredText /\ ~out.val.raised) =>
        LET named == NamedDatasources(inp.llm.content.raw) IN
        /\ named = {} => out.val.val.fields.datasource = "web_search"
        /\ named # {} => out.val.val.fields.datasource \in named
        /\ "local_rag" \in named => out.val.val.fields.datasource = "local_rag"

\* the history entry e records the outcome res of the call that appended it
EntryAgrees(e, res) ==
    /\ e.datasource = res.routing.datasource
    /\ e.reasoning = res.routing.reasoning
    /\ e.confidence = res.routing.confidence
    /\ e.num_sources = Len(res.sources)
    /\ (e.error # <<>>) <=> ("error" \in DOMAIN res)
    /\ e.error # <<>> => e.error[1] = res.error
    /\ e.datasource \in valid_sources => e.retrieval_type = e.datasource

\* C30: every history entry appended by a route_query call agrees with the
\* outcome that call returns: datasource, reasoning and confidence are those
\* of the outcome's routing decision, num_sources is the length of the
\* outcome's sources, error is set exactly when the outcome's error is set,
\* and retrieval_type is the mode of the datasource.
C30_EntryAgreesWithOutcome ==
    [][Len(routing_history') = Len(routing_history) + 1 =>
          EntryAgrees(routing_history'[Len(routing_history')], result')]_vars

\* every call so far appended its entry, and the newest one records a
\* retrieval that reported an error next to one that returned sources
C30_Witness ==
    /\ calls = 2
    /\ Len(routing_history) = 2
    /\ routing_history[1].num_sources >= 1
    /\ routing_history[2].error # <<>>
    /\ "error" \in DOMAIN result
    /\ routing_history[2].retrieval_type = routing_history[2].datasource

====
